---- MODULE Spec2Model ----
(***************************************************************************)
(* A model of the gpt-research pipeline: the orchestrator GPTResearch      *)
(* (src/src/core/Agent.ts), the working Memory (src/src/core/Memory.ts),   *)
(* the BrowserManager, the SourceCurator and the ContextManager            *)
(* (src/src/skills), the retry loops of the scrapers, retrievers and LLM   *)
(* providers, the Config singleton (src/unnamed/part_003), the usage        *)
(* accounting of the LLM provider, the provider loop of the                *)
(* ResearchConductor, and the WebSocketConnection of the MCP client        *)
(* (src/src/mcp/MCPClient.ts).                                             *)
(***************************************************************************)
EXTENDS Integers, Sequences, FiniteSets, TLC

(***************************************************************************)
(* Bounds of the model.                                                    *)
(***************************************************************************)
MaxChunks == 3
MaxRelevance == 1
MaxChunkTokens == 2
MaxBudget == 4
MaxPages == 2
MaxUrls == 2
MaxCalls == 2
TokenUnit == 250
MaxQuestions == 2
MaxResults == 2
MaxReportChunks == 1
MaxDedupLen == 3
MaxScore == 2
MaxInstances == 2
MaxRuns == 2
MaxLLMCalls == 3
MaxTokens == 2
OversizeTokens == 40
MaxMemOps == 3
MaxLaterOps == 2
MaxReconnects == 2
MaxSockets == 4

(***************************************************************************)
(* Program constants.                                                      *)
(***************************************************************************)
DefaultMaxContextTokens == 8000
BaseScore == 50
TrustedBonus == 30
BlockedPenalty == 50
GovBonus == 25
InfoPenalty == 10
MaxRetries == 3
FirstDelay == 1000
MinCredibilityScore == 30
CompressThreshold == 500
TopN == 10
DefaultBatchSize == 3

(***************************************************************************)
(* URLs.  A URL is a page with a suffix: "" (already normal), "/" (a       *)
(* trailing slash) or "#" (a fragment).                                    *)
(***************************************************************************)
Suffixes == {"", "/", "#"}
Urls == [page : 1..MaxPages, suffix : Suffixes]

\* BrowserManager.normalizeUrl: drops the hash and one trailing slash.
normalizeUrl(u) == [u EXCEPT !.suffix = ""]

(***************************************************************************)
(* GPTResearch (src/src/core/Agent.ts): the state of the one run of an     *)
(* instance, and what an observer of the instance sees of it.              *)
(***************************************************************************)
VARIABLES
  mode,               \* "none" before the call, "batch" (conductResearch), "stream"
  cfgQuery,           \* config.query: "" (missing), "plain", "regex" (a term such as c++)
  cfgSearchKey,       \* whether the configuration holds a search provider key
  cfgScraper,         \* config.defaultScraper
  runPc,              \* the statement the run has reached
  suspended,          \* the generator is parked at a yield, waiting for next()
  stageLog,           \* the stages begun and finished, in order
  questions,          \* researchQuestions
  searchSlots,        \* the promises of searchInformation, one per question
  searchResults,      \* searchResults
  validations,        \* the validations of curateSearchResults
  curated,            \* curatedResults
  scrapeInput,        \* the results handed to scrapeSearchResults
  scrapedResults,     \* scrapedResults
  ctxSources,         \* the sources handed to buildContext
  contextData,        \* contextData
  reportChunks,       \* number of report chunks streamed
  resultSources,      \* result.sources / researchContext.sources
  updates,            \* the types of the updates the generator has yielded
  thrown,             \* an error is on its way out of the run
  outcome,            \* how the call ended for its caller: "none", "resolved", "rejected"
  cleanups,           \* number of completed BrowserManager.cleanup calls
  report              \* the report text so far, as a sequence of blocks

runVars ==
  <<mode, cfgQuery, cfgSearchKey, cfgScraper, runPc, suspended, stageLog, questions,
    searchSlots, searchResults, validations, curated, scrapeInput, scrapedResults,
    ctxSources, contextData, reportChunks, resultSources, updates, thrown, outcome,
    cleanups, report>>

VARIABLES
  events,             \* the lifecycle events the GPTResearch instance has emitted
  llmCalls,           \* calls of llmProvider made by the run
  searchCalls         \* calls of retriever.search made by the run

obsVars == <<events, llmCalls, searchCalls>>

\* Memory
VARIABLES
  scrapedContent,     \* Memory.scrapedContent: a map from URLs to content
  visitedUrls,        \* Memory.visitedUrls
  searchQueries       \* number of 'searchQueries' entries (Memory.add)

memVars == <<scrapedContent, visitedUrls, searchQueries>>

\* BrowserManager
VARIABLES
  activeScrapers,     \* BrowserManager.activeScrapers (the keys)
  acqPc,              \* position inside scrapeUrls: "idle", "batch", "await", "return"
  acqCaller,          \* who called scrapeUrls: "none", "api", "run"
  acqUrls,            \* the urls argument of the call
  acqType,            \* the scraper type the call's options select
  batches,            \* scrapeUrls' local batches
  acqBatch,           \* index of the current batch
  acqSlots,           \* the promises of the current batch, in input order
  acqResults,         \* scrapeUrls' local results
  acqCalled,          \* the URLs handed to scraper.scrape during this call
  acqHits,            \* the URLs answered from the cache during this call
  cacheAtStart,       \* the cache as it was when the call started
  acqCalls            \* number of scrapeUrls calls made so far

acqVars ==
  <<activeScrapers, acqPc, acqCaller, acqUrls, acqType, batches, acqBatch, acqSlots,
    acqResults, acqCalled, acqHits, cacheAtStart, acqCalls>>

\* SourceCurator
VARIABLES
  domainScores        \* SourceCurator.domainScores: the per-domain score cache

curVars == <<domainScores>>

\* ContextManager
VARIABLES
  ctxPc,              \* position inside buildContext: "idle", "select", "compress",
                      \* "compressAwait", "done"
  ctxCaller,          \* who called buildContext: "none", "api", "run"
  maxContextTokens,   \* ContextManager.maxContextTokens
  chunks,             \* the sorted chunks selectChunks iterates over
  ctxIdx,             \* index of the next chunk of the current for-of loop
  selected,           \* selectChunks' local selected
  totalTokens,        \* selectChunks' local totalTokens
  ctxSkipped,         \* number of chunks the selection loop has passed over
  compressed          \* compressContext's local compressed

ctxVars ==
  <<ctxPc, ctxCaller, maxContextTokens, chunks, ctxIdx, selected, totalTokens, ctxSkipped,
    compressed>>

\* a direct call of one operation: what it was given and what it returned
VARIABLES
  callArg,            \* the argument of the call
  callRet             \* the value returned, <<>> before the call

callVars == <<callArg, callRet>>

CallIdle ==
  /\ callArg = <<>>
  /\ callRet = <<>>

\* one network call of a component, with the retry loop around it
VARIABLES
  retryOf,            \* whose call it is: "cheerio", "puppeteer", "retriever", "llm"
  retryPc,            \* "idle", "await" (fn is in flight), "sleep" (setTimeout), "done"
  retriesLeft,        \* the retries argument of the current retry() frame
  delay,              \* the delay argument of the current retry() frame
  attempts,           \* how each invocation of fn ended, in order
  sleeps,             \* the delays that were waited, in order
  retryResult         \* "none", "ok" (fn's value is returned), "error" (its error is thrown)

retryVars == <<retryOf, retryPc, retriesLeft, delay, attempts, sleeps, retryResult>>

RetryIdle ==
  /\ retryOf = "none"
  /\ retryPc = "idle"
  /\ retriesLeft = 0
  /\ delay = 0
  /\ attempts = <<>>
  /\ sleeps = <<>>
  /\ retryResult = "none"

\* several GPTResearch instances of one process, and their runs
VARIABLES
  configInstance,     \* Config.instance, the static singleton: {} or {its options}
  ctorConfig,         \* per instance: {the config its constructor was given}, or {}
  instMemory,         \* per instance: this.memory
  runState            \* per run: its instance, its position, what it read from the
                      \* configuration, and the memory it found when it started

instVars == <<configInstance, ctorConfig, instMemory, runState>>

\* the LLM provider's calls of one instance, and the totals its 'usage' handler keeps
VARIABLES
  invocations,        \* the invocations made so far: capability, tokens spent, how it ended
  tokensUsed,         \* GPTResearch.tokensUsed
  totalCost           \* GPTResearch.totalCost, in units of the input price of a token

usageVars == <<invocations, tokensUsed, totalCost>>

UsageIdle ==
  /\ invocations = <<>>
  /\ tokensUsed = 0
  /\ totalCost = 0

\* a Memory instance driven through its API, and a second one its export is imported into
VARIABLES
  memory,             \* the Memory instance
  memOps,             \* number of add operations made on it
  added,              \* the addSearchResults calls made: query and results, in order
  exported,           \* <<>>, or <<the value export() returned>>
  newMemory,          \* <<>>, or <<the fresh instance after import(exported)>>
  sharing,            \* per array of the exported instance, who holds that very array
  mutated             \* the instances mutated after the import, in order

wmVars == <<memory, memOps, added, exported, newMemory, sharing, mutated>>

\* The arrays of a Memory that are objects of their own: the three array fields,
\* and the array of entries entriesByType holds for a type.
ArrayFields == {"searchResults", "context", "researchResults", "note", "searchQueries"}

\* new Map(): the keys in insertion order, and the value of each key
EmptyMap == [keys |-> <<>>, values |-> <<>>]

\* new Memory(); a Set is its items in insertion order
NewMemory ==
  [entries |-> EmptyMap, entriesByType |-> EmptyMap, searchResults |-> <<>>,
   scrapedContent |-> EmptyMap, visitedUrls |-> <<>>, reports |-> EmptyMap,
   context |-> <<>>, subtopics |-> <<>>, researchResults |-> <<>>, nextId |-> 1]

WmIdle ==
  /\ memory = NewMemory
  /\ memOps = 0
  /\ added = <<>>
  /\ exported = <<>>
  /\ newMemory = <<>>
  /\ sharing = [f \in ArrayFields |-> {}]
  /\ mutated = <<>>

\* one searchInformation call of a ResearchConductor, provider by provider
VARIABLES
  retrieverCfg,       \* config: defaultRetriever, and the providers that have an API key
  srchPc,             \* "idle", "await" (Promise.allSettled), "done"
  singles,            \* per query, its searchSingleQuery: the calls made and how it settled
  conductorEvents,    \* the events the ResearchConductor has emitted: name and query
  srchReturn          \* <<>>, or <<the results searchInformation returned>>

srchVars == <<retrieverCfg, srchPc, singles, conductorEvents, srchReturn>>

SrchIdle ==
  /\ retrieverCfg = [defaultRetriever |-> "tavily", keys |-> {"tavily"}]
  /\ srchPc = "idle"
  /\ singles = <<>>
  /\ conductorEvents = <<>>
  /\ srchReturn = <<>>

\* one scrapePriority call of the BrowserManager
VARIABLES
  prioPc,             \* "idle", "priority" (first scrapeUrls), "remaining" (second), "done"
  prioUrls,           \* the urls argument
  priorityUrls,       \* the priorityUrls argument
  prioBatchSize,      \* options.maxConcurrency || 3
  prioCalled,         \* the urls handed to a scraper by the first scrapeUrls call
  prioResults         \* scrapePriority's local results

prioVars == <<prioPc, prioUrls, priorityUrls, prioBatchSize, prioCalled, prioResults>>

PrioIdle ==
  /\ prioPc = "idle"
  /\ prioUrls = <<>>
  /\ priorityUrls = <<>>
  /\ prioBatchSize = DefaultBatchSize
  /\ prioCalled = <<>>
  /\ prioResults = <<>>

\* one WebSocketConnection of the MCP client
VARIABLES
  state,                \* MCPConnectionState
  ws,                   \* readyState of this.ws: "none" before the first connect()
  autoReconnect,        \* this.autoReconnect
  maxReconnectAttempts, \* this.maxReconnectAttempts
  reconnectAttempts,    \* this.reconnectAttempts
  timer,                \* the setTimeout of reconnect() is pending
  sockets,              \* number of WebSocket objects made by connect() so far
  closedAt              \* <<>>, or <<sockets when close() was called>>

wsVars == <<state, ws, autoReconnect, maxReconnectAttempts, reconnectAttempts, timer,
            sockets, closedAt>>

WsIdle ==
  /\ state = "disconnected"
  /\ ws = "none"
  /\ autoReconnect = TRUE
  /\ maxReconnectAttempts = MaxReconnects
  /\ reconnectAttempts = 0
  /\ timer = FALSE
  /\ sockets = 0
  /\ closedAt = <<>>

extVars == <<usageVars, wmVars, srchVars, prioVars, wsVars>>

ExtIdle == UsageIdle /\ WmIdle /\ SrchIdle /\ PrioIdle /\ WsIdle

auxVars == <<callVars, retryVars, instVars, extVars>>

\* new Memory(): nothing visited, cached, stored or added to the context
EmptyMemory == [visitedUrls |-> {}, scrapedContent |-> {}, searchResults |-> {}, context |-> {}]

\* a run that has not been started
NoRun ==
  [inst |-> 0, pc |-> "idle", query |-> "none", ctxQuery |-> "none", reportType |-> "none",
   memAtStart |-> EmptyMemory]

InstIdle ==
  /\ configInstance = {}
  /\ ctorConfig = [i \in 1..MaxInstances |-> {}]
  /\ instMemory = [i \in 1..MaxInstances |-> EmptyMemory]
  /\ runState = [r \in 1..MaxRuns |-> NoRun]

AuxIdle == CallIdle /\ RetryIdle /\ InstIdle /\ ExtIdle

\* this.emit(name) of a skill, as forwarded by setupEventForwarding: only a skill
\* that belongs to a GPTResearch run has a listener that records the event.
emitted(caller, log, name) == IF caller = "run" THEN Append(log, name) ELSE log

(***************************************************************************)
(* Memory (src/src/core/Memory.ts): the URL -> content cache and the       *)
(* visited set.                                                            *)
(***************************************************************************)
\* What a scraper can extract from a page without error: nothing, or some text.
Contents == {"", "text"}

mapSet(m, k, v) == [x \in DOMAIN m \cup {k} |-> IF x = k THEN v ELSE m[x]]

\* Memory.getScrapedContent(url) followed by the truthiness test `if (cached)`.
hasCached(sc, u) == u \in DOMAIN sc /\ sc[u] # ""

\* Memory.isUrlVisited
isUrlVisited(visited, u) == u \in visited

RECURSIVE seqRange(_)
seqRange(s) == IF s = <<>> THEN {} ELSE {Head(s)} \cup seqRange(Tail(s))

\* Array.prototype.sort with a comparator (a, b) => key(b) - key(a): stable,
\* descending by key; keys[i] is the key of s[i].
stableSortDesc(s, keys) ==
  LET n == Len(s)
      rank(i) ==
        1 + Cardinality({j \in 1..n : \/ keys[j] > keys[i]
                                     \/ (keys[j] = keys[i] /\ j < i)})
  IN [k \in 1..n |-> s[CHOOSE i \in 1..n : rank(i) = k]]

\* the elements of s at the indexes idx, in the order of s
atIndexes(s, idx) ==
  [k \in 1..Cardinality(idx) |->
     s[CHOOSE i \in idx : Cardinality({j \in idx : j < i}) = k - 1]]

MemInit ==
  /\ scrapedContent = <<>>
  /\ visitedUrls = {}
  /\ searchQueries = 0

(***************************************************************************)
(* BrowserManager (src/src/skills/BrowserManager.ts).                      *)
(***************************************************************************)
ScraperTypes == {"cheerio", "puppeteer"}

\* the seen-set loop of filterUniqueUrls
RECURSIVE filterFrom(_, _, _)
filterFrom(urls, seen, visited) ==
  IF urls = <<>> THEN <<>>
  ELSE LET u == Head(urls)
           n == normalizeUrl(u)
       IN IF n \notin seen /\ ~isUrlVisited(visited, n)
          THEN <<u>> \o filterFrom(Tail(urls), seen \cup {n}, visited)
          ELSE filterFrom(Tail(urls), seen, visited)

\* BrowserManager.filterUniqueUrls
filterUniqueUrls(urls, visited) == filterFrom(urls, {}, visited)

\* BrowserManager.createBatches
RECURSIVE createBatches(_, _)
createBatches(items, batchSize) ==
  IF items = <<>> THEN <<>>
  ELSE IF Len(items) <= batchSize THEN <<items>>
       ELSE <<SubSeq(items, 1, batchSize)>>
              \o createBatches(SubSeq(items, batchSize + 1, Len(items)), batchSize)

\* The synchronous head of scrapeUrl: the cache test; a miss calls scraper.scrape.
scrapeUrlHead(sc, u) ==
  IF hasCached(sc, u)
  THEN [url |-> u, status |-> "done", content |-> sc[u], error |-> FALSE, cached |-> TRUE]
  ELSE [url |-> u, status |-> "pending", content |-> "", error |-> FALSE, cached |-> FALSE]

RECURSIVE seqFilter(_, _)
seqFilter(s, keep) ==
  IF s = <<>> THEN <<>>
  ELSE IF Head(s) \in keep THEN <<Head(s)>> \o seqFilter(Tail(s), keep)
       ELSE seqFilter(Tail(s), keep)

AcqInit ==
  /\ activeScrapers = {}
  /\ acqPc = "idle"
  /\ acqCaller = "none"
  /\ acqUrls = <<>>
  /\ acqType = "cheerio"
  /\ batches = <<>>
  /\ acqBatch = 1
  /\ acqSlots = <<>>
  /\ acqResults = <<>>
  /\ acqCalled = <<>>
  /\ acqHits = <<>>
  /\ cacheAtStart = <<>>
  /\ acqCalls = 0

\* The statements of scrapeUrls before its batch loop.
scrapeUrlsHead(caller, urls, batchSize, scraperType) ==
  /\ acqCaller' = caller
  /\ acqUrls' = urls
  /\ acqType' = scraperType
  /\ batches' = createBatches(filterUniqueUrls(urls, visitedUrls), batchSize)
  /\ acqBatch' = 1
  /\ acqSlots' = <<>>
  /\ acqResults' = <<>>
  /\ acqCalled' = <<>>
  /\ acqHits' = <<>>
  /\ cacheAtStart' = scrapedContent
  /\ acqCalls' = acqCalls + 1
  /\ acqPc' = "batch"
  /\ events' = emitted(caller, events, "scraping_start")
  /\ UNCHANGED <<activeScrapers, llmCalls, searchCalls>>

\* scrapeUrls up to the batch loop: 'scraping_start', filterUniqueUrls, createBatches.
scrapeUrlsBegin(caller, urls, batchSize, scraperType) ==
  /\ acqPc = "idle"
  /\ scrapeUrlsHead(caller, urls, batchSize, scraperType)

\* scrapeBatch: urls.map(url => this.scrapeUrl(url)) runs every scrapeUrl up to its
\* first await: the cache test, getScraper, the call of scraper.scrape.
scrapeBatchStart ==
  /\ acqPc = "batch"
  /\ acqBatch <= Len(batches)
  /\ LET b == batches[acqBatch]
         slots == [i \in 1..Len(b) |-> scrapeUrlHead(scrapedContent, b[i])]
         hits == {b[i] : i \in {j \in 1..Len(b) : slots[j].cached}}
     IN /\ acqSlots' = slots
        /\ acqHits' = acqHits \o seqFilter(b, hits)
        /\ acqCalled' = acqCalled \o seqFilter(b, seqRange(b) \ hits)
        /\ activeScrapers' =
             IF seqRange(b) \ hits # {} THEN activeScrapers \cup {acqType}
             ELSE activeScrapers
  /\ acqPc' = "await"
  /\ UNCHANGED <<acqCaller, acqUrls, acqType, batches, acqBatch, acqResults,
                 cacheAtStart, acqCalls>>
  /\ UNCHANGED <<memVars, curVars, ctxVars, obsVars, runVars>>
  /\ UNCHANGED auxVars

\* The rest of scrapeUrl for one URL of the batch: scraper.scrape settles, with
\* content (stored by Memory.addScrapedContent) or with an error.
scrapeSettle(i, out) ==
  /\ acqPc = "await"
  /\ i \in 1..Len(acqSlots)
  /\ acqSlots[i].status = "pending"
  /\ IF out = "error"
     THEN /\ acqSlots' = [acqSlots EXCEPT ![i].status = "done", ![i].error = TRUE]
          /\ UNCHANGED <<scrapedContent, visitedUrls>>
     ELSE /\ acqSlots' = [acqSlots EXCEPT ![i].status = "done", ![i].content = out]
          /\ scrapedContent' = mapSet(scrapedContent, acqSlots[i].url, out)
          /\ visitedUrls' = visitedUrls \cup {acqSlots[i].url}
  /\ UNCHANGED <<activeScrapers, acqPc, acqCaller, acqUrls, acqType, batches, acqBatch,
                 acqResults, acqCalled, acqHits, cacheAtStart, acqCalls, searchQueries>>
  /\ UNCHANGED <<curVars, ctxVars, obsVars, runVars>>
  /\ UNCHANGED auxVars

\* A join that resolves as soon as one promise of the batch has settled.
anySettled(slots) == \E i \in 1..Len(slots) : slots[i].status = "done"

\* Promise.allSettled(scrapePromises) resolves when every promise has settled
allSettled(slots) == \A i \in 1..Len(slots) : slots[i].status = "done"

\* One settled promise of the batch as the ScrapingResult it resolved with.
resultOf(slot) ==
  [url |-> slot.url, content |-> slot.content, error |-> slot.error,
   cached |-> slot.cached]

\* A batch whose results are collected with the failed ones moved to the end.
batchResultsErrorsLast(slots) ==
  LET n == Len(slots)
      ok == {i \in 1..n : ~slots[i].error}
      idx == [k \in 1..n |->
                IF k <= Cardinality(ok)
                THEN CHOOSE i \in ok : Cardinality({j \in ok : j < i}) = k - 1
                ELSE CHOOSE i \in (1..n) \ ok :
                       Cardinality({j \in (1..n) \ ok : j < i}) = k - Cardinality(ok) - 1]
  IN [k \in 1..n |-> resultOf(slots[idx[k]])]

\* scrapeBatch: results.map((result, index) => ...) over the array of
\* Promise.allSettled, which is in the order of scrapePromises.
batchResults(slots) == [i \in 1..Len(slots) |-> resultOf(slots[i])]

\* Promise.allSettled of the batch resolves: results.push(...batchResults).
scrapeBatchJoin ==
  /\ acqPc = "await"
  /\ allSettled(acqSlots)
  /\ acqResults' = acqResults \o batchResults(acqSlots)
  /\ acqSlots' = <<>>
  /\ acqBatch' = acqBatch + 1
  /\ acqPc' = "batch"
  /\ UNCHANGED <<activeScrapers, acqCaller, acqUrls, acqType, batches, acqCalled,
                 acqHits, cacheAtStart, acqCalls>>
  /\ UNCHANGED <<memVars, curVars, ctxVars, obsVars, runVars>>
  /\ UNCHANGED auxVars

\* The batch loop of scrapeUrls ends: 'scraping_complete', return results.
scrapeUrlsEnd ==
  /\ acqPc = "batch"
  /\ acqBatch > Len(batches)
  /\ acqPc' = "return"
  /\ events' = emitted(acqCaller, events, "scraping_complete")
  /\ UNCHANGED <<activeScrapers, acqCaller, acqUrls, acqType, batches, acqBatch, acqSlots,
                 acqResults, acqCalled, acqHits, cacheAtStart, acqCalls>>
  /\ UNCHANGED <<memVars, curVars, ctxVars, llmCalls, searchCalls, runVars>>
  /\ UNCHANGED auxVars

\* The locals of a finished scrapeUrls call go away.
acqReset ==
  /\ acqPc' = "idle"
  /\ acqCaller' = "none"
  /\ acqUrls' = <<>>
  /\ acqType' = "cheerio"
  /\ batches' = <<>>
  /\ acqBatch' = 1
  /\ acqSlots' = <<>>
  /\ acqResults' = <<>>
  /\ acqCalled' = <<>>
  /\ acqHits' = <<>>
  /\ cacheAtStart' = <<>>

\* A cleanup that closes the scrapers but forgets to clear the registry.
cleanupKeepsRegistry(active) == active

\* BrowserManager.cleanup: close every scraper that can be closed (a failing close
\* is caught), then this.activeScrapers.clear(): what is left in the registry.
cleanup(active) == {}

\* A caller of the BrowserManager API calls scrapeUrls(urls, options).
scrapeUrls(urls, batchSize, scraperType) ==
  /\ acqCalls < MaxCalls
  /\ scrapeUrlsBegin("api", urls, batchSize, scraperType)
  /\ UNCHANGED <<memVars, curVars, ctxVars, runVars>>
  /\ UNCHANGED auxVars

\* scrapeUrls returns to its caller.
scrapeUrlsReturn ==
  /\ acqPc = "return"
  /\ acqCaller = "api"
  /\ acqReset
  /\ UNCHANGED <<activeScrapers, acqCalls>>
  /\ UNCHANGED <<memVars, curVars, ctxVars, obsVars, runVars>>
  /\ UNCHANGED auxVars

\* A caller of the BrowserManager API calls cleanup() between two scrapeUrls calls.
cleanupCall ==
  /\ acqPc = "idle"
  /\ activeScrapers # {}
  /\ activeScrapers' = cleanup(activeScrapers)
  /\ UNCHANGED <<acqPc, acqCaller, acqUrls, acqType, batches, acqBatch, acqSlots,
                 acqResults, acqCalled, acqHits, cacheAtStart, acqCalls>>
  /\ UNCHANGED <<memVars, curVars, ctxVars, obsVars, runVars>>
  /\ UNCHANGED auxVars

(***************************************************************************)
(* SourceCurator (src/src/skills/SourceCurator.ts, first half).            *)
(* What validateSource reads of a result of the pipeline is fixed by its    *)
(* page:                                                                   *)
(*   page % 4 = 1  an ordinary .com page, nothing to add or subtract       *)
(*   page % 4 = 2  a page of a blocked domain (example.com)                *)
(*   page % 4 = 3  a result whose url does not parse                       *)
(*   page % 4 = 0  a page of a domain that matches the trusted and the     *)
(*                 blocked list and ends in .gov (example.com.gov)         *)
(***************************************************************************)
malformed(u) == u.page % 4 = 3

\* A domain is what checkDomain reads of a host name: whether it matches the
\* trusted list, whether it matches the blocked list, and its top-level domain.
domainOf(u) ==
  [name |-> u.page, trusted |-> u.page % 4 = 0, blocked |-> u.page % 4 \in {0, 2},
   tld |-> IF u.page % 4 = 0 THEN "gov" ELSE "com"]
trustedMatch(d) == d.trusted
blockedMatch(d) == d.blocked
tldScore(d) ==
  CASE d.tld = "gov" -> GovBonus
    [] d.tld = "info" -> 0 - InfoPenalty
    [] d.tld = "edu" -> 20
    [] d.tld = "org" -> 10
    [] d.tld = "io" -> 0 - 5
    [] OTHER -> 0

\* Host names as url.hostname gives them, label by label.
Hosts == {<<"example", "gov">>, <<"example", "com">>, <<"arxiv", "org">>}

\* Entries of the constructor's lists that a host of Hosts can match: an entry is
\* its labels, and whether it is written with a leading dot ('.gov').
DefaultTrustedDomains ==
  {[dot |-> FALSE, labels |-> <<"arxiv", "org">>], [dot |-> TRUE, labels |-> <<"gov">>],
   [dot |-> TRUE, labels |-> <<"edu">>], [dot |-> FALSE, labels |-> <<"wikipedia", "org">>]}
DefaultBlockedDomains ==
  {[dot |-> FALSE, labels |-> <<"example", "com">>], [dot |-> FALSE, labels |-> <<"test", "com">>]}

\* domain.includes(entry), on whole labels: the entry's labels occur in a row, after
\* a dot when the entry starts with one.
includes(host, entry) ==
  \E p \in 1..Len(host) :
    /\ p + Len(entry.labels) - 1 <= Len(host)
    /\ entry.dot => p > 1
    /\ \A k \in 1..Len(entry.labels) : host[p + k - 1] = entry.labels[k]

\* what checkDomain reads of a host name under the lists of the constructor
domainOfHost(host) ==
  [name |-> host,
   trusted |-> \E entry \in DefaultTrustedDomains : includes(host, entry),
   blocked |-> \E entry \in DefaultBlockedDomains : includes(host, entry),
   tld |-> host[Len(host)]]

\* A source is what validateSource reads of a search result.  sourceOf gives the
\* results of the pipeline's provider: https, no date, no author, a short
\* snippet and a short title.
sourceOf(u) ==
  [malformed |-> malformed(u), https |-> TRUE, domain |-> domainOf(u), dated |-> "none",
   length |-> 0, author |-> FALSE, cites |-> FALSE, title |-> "short"]

\* the criteria conductResearch and streamResearch pass to curateSearchResults:
\* {minCredibilityScore: 30, requireHttps: false, maxAge: 365}
PipelineCriteria ==
  [requireHttps |-> FALSE, allowedDomains |-> "none", blockedDomains |-> "none",
   maxAge |-> TRUE, requireDate |-> FALSE, minContentLength |-> 0,
   minCredibilityScore |-> MinCredibilityScore]

\* SourceCurator.scoreContent; it throws on a result without a title
\* (source.title.toLowerCase()), which validateSource catches.
scoreContent(src) ==
  (IF src.author THEN 5 ELSE 0)
  + (IF src.length > 500 THEN 5 ELSE 0)
  + (IF src.length > 1000 THEN 5 ELSE 0)
  + (IF src.cites THEN 10 ELSE 0)
  + (IF src.title \in {"long", "clickbait"} THEN 5 ELSE 0)
  - (IF src.title = "clickbait" THEN 15 ELSE 0)

\* SourceCurator.checkDomain, with the cache it reads and writes
checkDomain(d, cache) ==
  IF d \in DOMAIN cache
  THEN [trusted |-> cache[d] > 20, blocked |-> cache[d] < -20, score |-> cache[d],
        cache |-> cache]
  ELSE LET score == (IF trustedMatch(d) THEN TrustedBonus ELSE 0)
                    - (IF blockedMatch(d) THEN BlockedPenalty ELSE 0)
                    + tldScore(d)
       IN [trusted |-> trustedMatch(d), blocked |-> blockedMatch(d), score |-> score,
           cache |-> mapSet(cache, d, score)]

\* A validation that returns the score as it was added up.
clampNothing(x) == x

\* Math.max(0, Math.min(100, score))
clamp(x) == IF x < 0 THEN 0 ELSE IF x > 100 THEN 100 ELSE x

\* the score validateSource has added up when it reaches the threshold test
rawScore(src, criteria, domainScore) ==
  BaseScore
  - (IF criteria.requireHttps /\ ~src.https THEN 10 ELSE 0)
  + domainScore
  - (IF criteria.maxAge /\ src.dated = "old" THEN 5 ELSE 0)
  - (IF criteria.requireDate /\ src.dated = "none" THEN 5 ELSE 0)
  - (IF criteria.minContentLength > 0 /\ src.length < criteria.minContentLength
     THEN 10 ELSE 0)
  + scoreContent(src)

\* SourceCurator.validateSource: the catch block answers a url that does not
\* parse and a source without a title.
validateSource(src, criteria, cache) ==
  IF src.malformed
  THEN [isValid |-> FALSE, credibilityScore |-> 0, cache |-> cache]
  ELSE LET dc == checkDomain(src.domain, cache)
           score == rawScore(src, criteria, dc.score)
       IN IF src.title = "missing"
          THEN [isValid |-> FALSE, credibilityScore |-> 0, cache |-> dc.cache]
          ELSE [isValid |->
                  /\ ~dc.blocked
                  /\ criteria.allowedDomains # "other"
                  /\ criteria.blockedDomains # "match"
                  /\ ~(criteria.minCredibilityScore > 0
                       /\ score < criteria.minCredibilityScore),
                credibilityScore |-> clamp(score),
                cache |-> dc.cache]

\* the domain cache once the first k sources have been validated
cacheAfter(rs, cache, k) ==
  LET fresh == {domainOf(rs[j]) : j \in {i \in 1..k : ~malformed(rs[i])}} \ DOMAIN cache
  IN [d \in DOMAIN cache \cup fresh |->
        IF d \in DOMAIN cache THEN cache[d] ELSE checkDomain(d, <<>>).score]

\* SourceCurator.validateSources: one validation per source, in order
validateFrom(rs, cache) ==
  [validations |->
     [i \in 1..Len(rs) |->
        LET v == validateSource(sourceOf(rs[i]), PipelineCriteria,
                                cacheAfter(rs, cache, i - 1))
        IN [url |-> rs[i], isValid |-> v.isValid, credibilityScore |-> v.credibilityScore]],
   cache |-> cacheAfter(rs, cache, Len(rs))]

\* results.filter((_result, index) => validations[index].isValid), as index list
validIndexes(vs) == atIndexes([i \in 1..Len(vs) |-> i], {i \in 1..Len(vs) : vs[i].isValid})

\* A filter that keeps every result, whatever its validation says.
keptIndexesAll(vs) == [i \in 1..Len(vs) |-> i]

\* the indexes curateSearchResults keeps
keptIndexes(vs) == validIndexes(vs)

\* curated.sort((a, b) => bScore - aScore): stable, descending by credibility
sortByScore(s, vs) == stableSortDesc(s, [k \in 1..Len(s) |-> vs[s[k]].credibilityScore])

\* SourceCurator.curateSearchResults: the curated results, given the validations
curateSearchResults(rs, vs) ==
  CHOOSE sorted \in {[k \in 1..Len(order) |-> rs[order[k]]] :
                       order \in {sortByScore(kept, vs) : kept \in {keptIndexes(vs)}}} : TRUE

CurInit == domainScores = <<>>

(***************************************************************************)
(* ContextManager (src/src/skills/SourceCurator.ts, second half).          *)
(* A chunk is [source, relevance, tokens]; estimateTokens is at least 1    *)
(* for every text (the empty text splits into one word).                   *)
(***************************************************************************)
\* What createContextChunks derives from one source's content: its relevance to
\* the query and its token estimate, small or far over every budget.
SourceContent ==
  [relevance : 0..MaxRelevance,
   tokens : {k * TokenUnit : k \in (1..MaxChunkTokens) \cup {OversizeTokens}}]

\* createContextChunks: sources.map(...), one chunk per source, in input order; the
\* i-th source's url is modelled by its index.
createContextChunks(srcs) ==
  [i \in 1..Len(srcs) |->
     [source |-> i, relevance |-> srcs[i].relevance, tokens |-> srcs[i].tokens]]

RECURSIVE SeqsUpTo(_, _)
SeqsUpTo(S, n) ==
  IF n = 0 THEN {<<>>}
  ELSE LET shorter == SeqsUpTo(S, n - 1)
       IN shorter \cup {Append(s, x) : s \in {t \in shorter : Len(t) = n - 1}, x \in S}

RECURSIVE SumTokens(_)
SumTokens(s) ==
  IF s = <<>> THEN 0 ELSE Head(s).tokens + SumTokens(Tail(s))

\* A buildContext that hands the chunks to selectChunks in the order of the sources.
sortByRelevanceSkipped(s) == s

\* chunks.sort((a, b) => b.relevance - a.relevance)
sortByRelevance(s) == stableSortDesc(s, [k \in 1..Len(s) |-> s[k].relevance])

\* selected.reduce((minIdx, curr, idx, arr) => curr.relevance < arr[minIdx].relevance ? idx : minIdx, 0)
leastRelevantIndex(sel) ==
  CHOOSE i \in 1..Len(sel) :
    /\ \A j \in 1..Len(sel) : sel[i].relevance <= sel[j].relevance
    /\ \A j \in 1..(i - 1) : sel[j].relevance > sel[i].relevance

\* A slip in the budget test: the chunk's own tokens are left out.
selectStepNoChunkTokens(sel, total, chunk, max) ==
  IF total <= max
  THEN [selected |-> Append(sel, chunk), totalTokens |-> total + chunk.tokens]
  ELSE [selected |-> sel, totalTokens |-> total]

\* One iteration of the for-of loop of selectChunks.
selectStep(sel, total, chunk, max) ==
  IF total + chunk.tokens <= max
  THEN [selected |-> Append(sel, chunk), totalTokens |-> total + chunk.tokens]
  ELSE IF sel # <<>> /\ chunk.relevance > sel[Len(sel)].relevance
       THEN LET least == leastRelevantIndex(sel)
            IN IF chunk.relevance > sel[least].relevance
               THEN LET t == total - sel[least].tokens + chunk.tokens
                    IN [selected |-> IF t <= max THEN [sel EXCEPT ![least] = chunk] ELSE sel,
                        totalTokens |-> t]
               ELSE [selected |-> sel, totalTokens |-> total]
       ELSE [selected |-> sel, totalTokens |-> total]

RECURSIVE selectFrom(_, _, _, _)
selectFrom(sel, total, rest, max) ==
  IF rest = <<>> THEN sel
  ELSE LET r == selectStep(sel, total, Head(rest), max)
       IN selectFrom(r.selected, r.totalTokens, Tail(rest), max)

\* selectChunks as a whole, as buildContext calls it.
selectChunks(cs, max) == selectFrom(<<>>, 0, cs, max)

\* createContextChunks builds `new RegExp(`\\b${term}\\b`)` for every query term
\* once per source: a term with a regex metacharacter (c++) makes it throw as soon
\* as there is one source.
createContextChunksThrows(query, srcs) == query = "regex" /\ srcs # <<>>

CtxInit ==
  /\ ctxPc = "idle"
  /\ ctxCaller = "none"
  /\ maxContextTokens = DefaultMaxContextTokens
  /\ chunks = <<>>
  /\ ctxIdx = 1
  /\ selected = <<>>
  /\ totalTokens = 0
  /\ ctxSkipped = 0
  /\ compressed = <<>>

\* buildContext up to the selection loop: 'context_building_start',
\* createContextChunks, chunks.sort.
buildContextBegin(caller, srcs) ==
  /\ ctxPc = "idle"
  /\ ctxCaller' = caller
  /\ \E created \in {createContextChunks(srcs)} : chunks' = sortByRelevance(created)
  /\ ctxIdx' = 1
  /\ selected' = <<>>
  /\ totalTokens' = 0
  /\ ctxSkipped' = 0
  /\ compressed' = <<>>
  /\ ctxPc' = "select"
  /\ UNCHANGED maxContextTokens

\* One iteration of the for-of loop of selectChunks.
selectLoop ==
  /\ ctxPc = "select"
  /\ ctxIdx <= Len(chunks)
  /\ LET r == selectStep(selected, totalTokens, chunks[ctxIdx], maxContextTokens)
     IN /\ selected' = r.selected
        /\ totalTokens' = r.totalTokens
        /\ ctxSkipped' = IF r.selected = selected THEN ctxSkipped + 1 ELSE ctxSkipped
  /\ ctxIdx' = ctxIdx + 1
  /\ UNCHANGED <<ctxPc, ctxCaller, maxContextTokens, chunks, compressed>>
  /\ UNCHANGED <<memVars, acqVars, curVars, obsVars, runVars>>
  /\ UNCHANGED auxVars

\* selectChunks returns; compressContext starts its loop over the selection.
selectReturn ==
  /\ ctxPc = "select"
  /\ ctxIdx > Len(chunks)
  /\ ctxPc' = "compress"
  /\ ctxIdx' = 1
  /\ UNCHANGED <<ctxCaller, maxContextTokens, chunks, selected, totalTokens, ctxSkipped,
                 compressed>>
  /\ UNCHANGED <<memVars, acqVars, curVars, obsVars, runVars>>
  /\ UNCHANGED auxVars

\* One iteration of compressContext up to its await: a chunk under the threshold is
\* pushed as it is, any other chunk goes to the LLM (compressChunk).
compressLoop ==
  /\ ctxPc = "compress"
  /\ ctxIdx <= Len(selected)
  /\ IF selected[ctxIdx].tokens < CompressThreshold
     THEN /\ compressed' = Append(compressed,
                                  [source |-> selected[ctxIdx].source, form |-> "original"])
          /\ ctxIdx' = ctxIdx + 1
          /\ UNCHANGED <<ctxPc, llmCalls>>
     ELSE /\ ctxPc' = "compressAwait"
          /\ llmCalls' = IF ctxCaller = "run" THEN llmCalls + 1 ELSE llmCalls
          /\ UNCHANGED <<compressed, ctxIdx>>
  /\ UNCHANGED <<ctxCaller, maxContextTokens, chunks, selected, totalTokens, ctxSkipped>>
  /\ UNCHANGED <<memVars, acqVars, curVars, events, searchCalls, runVars>>
  /\ UNCHANGED auxVars

\* A compression loop that pushes nothing for a chunk whose compressChunk failed.
pushedDropsFailure(chunk, ok) ==
  IF ok THEN <<[source |-> chunk.source, form |-> "compressed"]>> ELSE <<>>

\* The try/catch of compressContext: what is pushed for a chunk sent to
\* compressChunk, its compressed text, or chunk.content when the call threw.
pushed(chunk, ok) ==
  <<[source |-> chunk.source, form |-> IF ok THEN "compressed" ELSE "original"]>>

\* compressChunk settles: the compressed text, or on failure the original content.
compressSettle(ok) ==
  /\ ctxPc = "compressAwait"
  /\ compressed' = compressed \o pushed(selected[ctxIdx], ok)
  /\ ctxIdx' = ctxIdx + 1
  /\ ctxPc' = "compress"
  /\ UNCHANGED <<ctxCaller, maxContextTokens, chunks, selected, totalTokens, ctxSkipped>>
  /\ UNCHANGED <<memVars, acqVars, curVars, obsVars, runVars>>
  /\ UNCHANGED auxVars

\* compressContext returns; buildContext emits 'context_building_complete'.
compressReturn ==
  /\ ctxPc = "compress"
  /\ ctxIdx > Len(selected)
  /\ ctxPc' = "done"
  /\ events' = emitted(ctxCaller, events, "context_building_complete")
  /\ UNCHANGED <<ctxCaller, maxContextTokens, chunks, ctxIdx, selected, totalTokens,
                 ctxSkipped, compressed>>
  /\ UNCHANGED <<memVars, acqVars, curVars, llmCalls, searchCalls, runVars>>
  /\ UNCHANGED auxVars

\* The locals of a finished buildContext call go away.
ctxReset ==
  /\ ctxPc' = "idle"
  /\ ctxCaller' = "none"
  /\ chunks' = <<>>
  /\ ctxIdx' = 1
  /\ selected' = <<>>
  /\ totalTokens' = 0
  /\ ctxSkipped' = 0
  /\ compressed' = <<>>
  /\ UNCHANGED maxContextTokens

\* ContextManager.setMaxTokens, called between two buildContext calls.
setMaxTokens(b) ==
  /\ ctxPc = "idle"
  /\ maxContextTokens' = b
  /\ UNCHANGED <<ctxPc, ctxCaller, chunks, ctxIdx, selected, totalTokens, ctxSkipped,
                 compressed>>
  /\ UNCHANGED <<memVars, acqVars, curVars, obsVars, runVars>>
  /\ UNCHANGED auxVars

\* A caller of the ContextManager API calls buildContext(sources, llmProvider).
buildContext(srcs) ==
  /\ buildContextBegin("api", srcs)
  /\ UNCHANGED <<memVars, acqVars, curVars, obsVars, runVars>>
  /\ UNCHANGED auxVars

\* buildContext returns to its caller.
buildContextReturn ==
  /\ ctxPc = "done"
  /\ ctxCaller = "api"
  /\ ctxReset
  /\ UNCHANGED <<memVars, acqVars, curVars, obsVars, runVars>>
  /\ UNCHANGED auxVars

(***************************************************************************)
(* ResearchConductor (src/src/skills/ResearchConductor.ts).                *)
(***************************************************************************)
\* What one provider call can return for one question: up to MaxResults results
\* with distinct urls (an empty list also stands for a failed search, which
\* searchSingleQuery turns into []).
ResultLists ==
  {s \in SeqsUpTo(Urls, MaxResults) : \A i, j \in 1..Len(s) : i # j => s[i] # s[j]}

\* the relevance score the provider reports for a result
providerScore(u) == u.page

\* A search result has a url and a score; the score is {} when the provider gave
\* none (undefined) and {v} otherwise.  asResults gives the results of the
\* pipeline's provider, which scores every result.
asResults(urls) == [i \in 1..Len(urls) |-> [url |-> urls[i], score |-> {providerScore(urls[i])}]]

\* (r.score || 0)
scoreOrZero(score) == IF score = {} THEN 0 ELSE CHOOSE v \in score : TRUE

\* the seen-set loop of deduplicateResults: the first occurrence of a url wins
uniqueByUrl(rs) ==
  atIndexes(rs, {i \in 1..Len(rs) : \A j \in 1..(i - 1) : rs[j].url # rs[i].url})

\* A deduplication that leaves the unique results in input order.
sortByProviderScoreNever(s) == s

\* if (unique.some(r => r.score !== undefined))
\*   unique.sort((a, b) => (b.score || 0) - (a.score || 0))
sortByProviderScore(s) ==
  IF \E k \in 1..Len(s) : s[k].score # {}
  THEN stableSortDesc(s, [k \in 1..Len(s) |-> scoreOrZero(s[k].score)])
  ELSE s

\* ResearchConductor.deduplicateResults
deduplicateResults(rs) ==
  CHOOSE sorted \in {sortByProviderScore(unique) : unique \in {uniqueByUrl(rs)}} : TRUE

RECURSIVE flatten(_)
flatten(ss) == IF ss = <<>> THEN <<>> ELSE Head(ss) \o flatten(Tail(ss))

(***************************************************************************)
(* GPTResearch.conductResearch and GPTResearch.streamResearch.             *)
(***************************************************************************)
StageOrder == <<"planning", "search", "curation", "scraping", "context", "report">>

begun(stage) == [stage |-> stage, phase |-> "begin"]
ended(stage) == [stage |-> stage, phase |-> "end"]

\* Config.validateRequired: an LLM key and a search provider key
validateRequired(hasLLMKey, hasSearchKey) == hasLLMKey /\ hasSearchKey

\* the constructor throws without the key of the configured LLM provider
hasLLMKey == TRUE

\* A run that goes from planning straight to curation.
batchNextSkipsSearch(pc) ==
  CASE pc = "entry" -> "plan"
    [] pc = "plan" -> "curate"
    [] pc = "search" -> "curate"
    [] pc = "curate" -> "scrape"
    [] pc = "scrape" -> "context"
    [] pc = "context" -> "report"
    [] pc = "report" -> "finish"
    [] pc = "catch" -> "finally"
    [] OTHER -> "finally"

\* conductResearch: the statement that follows the statement at pc
batchNext(pc) ==
  CASE pc = "entry" -> "plan"
    [] pc = "plan" -> "search"
    [] pc = "search" -> "curate"
    [] pc = "curate" -> "scrape"
    [] pc = "scrape" -> "context"
    [] pc = "context" -> "report"
    [] pc = "report" -> "finish"
    [] pc = "catch" -> "finally"
    [] OTHER -> "finally"

\* streamResearch: the statement that follows the statement at pc
streamNext(pc) ==
  CASE pc = "entry" -> "y_start"
    [] pc = "y_start" -> "y_plan"
    [] pc = "y_plan" -> "plan"
    [] pc = "plan" -> "y_subtopics"
    [] pc = "y_subtopics" -> "y_search"
    [] pc = "y_search" -> "search"
    [] pc = "search" -> "y_sources"
    [] pc = "y_sources" -> "y_curate"
    [] pc = "y_curate" -> "curate"
    [] pc = "curate" -> "y_scrape"
    [] pc = "y_scrape" -> "scrape"
    [] pc = "scrape" -> "y_context"
    [] pc = "y_context" -> "context"
    [] pc = "context" -> "y_report"
    [] pc = "y_report" -> "report"
    [] pc = "y_chunk" -> "reportAwait"
    [] pc = "report" -> "y_refs"
    [] pc = "y_refs" -> "y_complete"
    [] pc = "y_complete" -> "finally"
    [] pc = "catch" -> "y_error"
    [] pc = "y_error" -> "rethrow"
    [] OTHER -> "finally"

Continuation(m, pc) == IF m = "stream" THEN streamNext(pc) ELSE batchNext(pc)

YieldPoints ==
  {"y_start", "y_plan", "y_subtopics", "y_search", "y_sources", "y_curate", "y_scrape",
   "y_context", "y_report", "y_chunk", "y_refs", "y_complete", "y_error"}

\* A generator whose 'Adding references' update is typed complete as well.
YieldTypeRefsComplete(pc) ==
  CASE pc \in {"y_subtopics", "y_sources", "y_chunk"} -> "data"
    [] pc \in {"y_complete", "y_refs"} -> "complete"
    [] pc = "y_error" -> "error"
    [] OTHER -> "progress"

\* the type of the update each yield of streamResearch produces
YieldType(pc) ==
  CASE pc \in {"y_subtopics", "y_sources", "y_chunk"} -> "data"
    [] pc = "y_complete" -> "complete"
    [] pc = "y_error" -> "error"
    [] OTHER -> "progress"

\* what createContextChunks derives from a source: estimateTokens and
\* calculateRelevance of its content
contentTokens(c) ==
  CASE c = "text" -> MaxChunkTokens * TokenUnit
    [] c = "snippet" -> TokenUnit
    [] OTHER -> 1

contentRelevance(u, c) == IF c = "" THEN 0 ELSE u.page % (MaxRelevance + 1)

\* scrapeSearchResults: searchResults.map(...) over the results of scrapeUrls
scrapeSearchResultsMap(input, results) ==
  [i \in 1..Len(input) |->
     LET hits == {j \in 1..Len(results) : results[j].url = input[i]}
     IN IF hits # {} /\ ~results[CHOOSE j \in hits : \A k \in hits : j <= k].error
        THEN [url |-> input[i],
              content |-> results[CHOOSE j \in hits : \A k \in hits : j <= k].content,
              error |-> FALSE, scraped |-> TRUE]
        ELSE [url |-> input[i], content |-> "snippet", error |-> hits # {},
              scraped |-> FALSE]]

\* the cache after the addScrapedContent calls of scrapeSearchResults
RECURSIVE storeScraped(_, _)
storeScraped(sc, rs) ==
  IF rs = <<>> THEN sc
  ELSE storeScraped(IF Head(rs).scraped THEN mapSet(sc, Head(rs).url, Head(rs).content)
                    ELSE sc,
                    Tail(rs))

\* scrapedResults.filter(r => !r.error)
RECURSIVE withoutError(_)
withoutError(rs) ==
  IF rs = <<>> THEN <<>>
  ELSE IF Head(rs).error THEN withoutError(Tail(rs))
       ELSE <<[url |-> Head(rs).url, content |-> Head(rs).content]>> \o withoutError(Tail(rs))

\* A context builder that rejects an empty list of sources.
buildContextRejectsEmpty(query, srcs) == srcs = <<>> \/ (query = "regex" /\ srcs # <<>>)

\* whether buildContext throws for these sources
buildContextThrows(query, srcs) == createContextChunksThrows(query, srcs)

\* A report is a sequence of blocks. What the chat completion of the report can
\* hand back: nothing, a body without a title, a titled body, a titled body that
\* ends with a '## Sources' section of its own.
LLMOutputs == {<<>>, <<"body">>, <<"#title", "body">>, <<"#title", "body", "## sources">>}

\* A post-processing that leaves the model's text as it came.
postProcessReportVerbatim(text, srcs) == text

\* ReportGenerator.postProcessReport: a title when the text does not start with
\* '#', the metadata line after the first line, a references section when there
\* are sources and neither '## references' nor '## sources' is present
\* (cleanFormatting changes no block).
postProcessReport(text, srcs) ==
  LET titled == IF text # <<>> /\ Head(text) = "#title" THEN text ELSE <<"#title">> \o text
      withMeta == <<Head(titled), "metadata">> \o Tail(titled)
  IN IF \/ srcs = <<>>
        \/ "## references" \in seqRange(withMeta)
        \/ "## sources" \in seqRange(withMeta)
     THEN withMeta
     ELSE withMeta \o <<"## references">>

\* GPTResearch.addReferences
addReferences(text, srcs) ==
  IF srcs = <<>> \/ "## references" \in seqRange(text)
  THEN text
  ELSE text \o <<"## references">>

\* fullReport of streamResearch: the chunks received, concatenated
fullReport(n) == [i \in 1..n |-> "body"]

ObsInit ==
  /\ events = <<>>
  /\ llmCalls = 0
  /\ searchCalls = 0

RunIdle ==
  /\ mode = "none"
  /\ runPc = "idle"
  /\ suspended = FALSE
  /\ stageLog = <<>>
  /\ questions = <<>>
  /\ searchSlots = <<>>
  /\ searchResults = <<>>
  /\ validations = <<>>
  /\ curated = <<>>
  /\ scrapeInput = <<>>
  /\ scrapedResults = <<>>
  /\ ctxSources = <<>>
  /\ contextData = <<>>
  /\ reportChunks = 0
  /\ resultSources = <<>>
  /\ updates = <<>>
  /\ thrown = FALSE
  /\ outcome = "none"
  /\ cleanups = 0
  /\ report = <<>>

\* throw inside the try block
raise ==
  /\ runPc' = "catch"
  /\ thrown' = TRUE

\* conductResearch() is called: validateRequired, the query test, 'research_start'.
conductResearch ==
  /\ mode = "none"
  /\ mode' = "batch"
  /\ IF ~validateRequired(hasLLMKey, cfgSearchKey) \/ cfgQuery = ""
     THEN /\ raise
          /\ UNCHANGED events
     ELSE /\ events' = Append(events, "research_start")
          /\ runPc' = Continuation("batch", "entry")
          /\ UNCHANGED thrown
  /\ UNCHANGED memVars
  /\ UNCHANGED acqVars
  /\ UNCHANGED curVars
  /\ UNCHANGED ctxVars
  /\ UNCHANGED <<llmCalls, searchCalls>>
  /\ UNCHANGED <<cfgQuery, cfgSearchKey, cfgScraper, suspended, stageLog, questions,
                 searchSlots, searchResults, validations, curated, scrapeInput,
                 scrapedResults, ctxSources, contextData, reportChunks, resultSources,
                 updates, outcome, cleanups, report>>
  /\ UNCHANGED auxVars

\* streamResearch() is called: the generator object exists, its body has not started.
streamResearch ==
  /\ mode = "none"
  /\ mode' = "stream"
  /\ runPc' = "s_entry"
  /\ suspended' = TRUE
  /\ UNCHANGED memVars
  /\ UNCHANGED acqVars
  /\ UNCHANGED curVars
  /\ UNCHANGED ctxVars
  /\ UNCHANGED obsVars
  /\ UNCHANGED <<cfgQuery, cfgSearchKey, cfgScraper, stageLog, questions, searchSlots,
                 searchResults, validations, curated, scrapeInput, scrapedResults,
                 ctxSources, contextData, reportChunks, resultSources, updates, thrown,
                 outcome, cleanups, report>>
  /\ UNCHANGED auxVars

\* The consumer's for-await asks for the next update: the generator resumes after
\* the yield it is parked at (a break after 'complete' resumes it into finally).
consumerNext ==
  /\ mode = "stream"
  /\ suspended
  /\ suspended' = FALSE
  /\ runPc' = IF runPc = "s_entry" THEN "s_query" ELSE Continuation("stream", runPc)
  /\ UNCHANGED memVars
  /\ UNCHANGED acqVars
  /\ UNCHANGED curVars
  /\ UNCHANGED ctxVars
  /\ UNCHANGED obsVars
  /\ UNCHANGED <<mode, cfgQuery, cfgSearchKey, cfgScraper, stageLog, questions, searchSlots,
                 searchResults, validations, curated, scrapeInput, scrapedResults,
                 ctxSources, contextData, reportChunks, resultSources, updates, thrown,
                 outcome, cleanups, report>>
  /\ UNCHANGED auxVars

\* streamResearch: the query test that opens the try block.
streamQuery ==
  /\ runPc = "s_query"
  /\ IF cfgQuery = ""
     THEN raise
     ELSE /\ runPc' = Continuation("stream", "entry")
          /\ UNCHANGED thrown
  /\ UNCHANGED memVars
  /\ UNCHANGED acqVars
  /\ UNCHANGED curVars
  /\ UNCHANGED ctxVars
  /\ UNCHANGED obsVars
  /\ UNCHANGED <<mode, cfgQuery, cfgSearchKey, cfgScraper, suspended, stageLog, questions,
                 searchSlots, searchResults, validations, curated, scrapeInput,
                 scrapedResults, ctxSources, contextData, reportChunks, resultSources,
                 updates, outcome, cleanups, report>>
  /\ UNCHANGED auxVars

\* streamResearch reaches a yield: the update goes to the consumer.
streamYield ==
  /\ mode = "stream"
  /\ runPc \in YieldPoints
  /\ ~suspended
  /\ updates' = Append(updates, YieldType(runPc))
  /\ suspended' = TRUE
  /\ report' = IF runPc = "y_complete" THEN addReferences(report, curated) ELSE report
  /\ UNCHANGED memVars
  /\ UNCHANGED acqVars
  /\ UNCHANGED curVars
  /\ UNCHANGED ctxVars
  /\ UNCHANGED obsVars
  /\ UNCHANGED <<mode, cfgQuery, cfgSearchKey, cfgScraper, runPc, stageLog, questions,
                 searchSlots, searchResults, validations, curated, scrapeInput,
                 scrapedResults, ctxSources, contextData, reportChunks, resultSources,
                 thrown, outcome, cleanups>>
  /\ UNCHANGED auxVars

\* planResearchOutline up to its await: 'planning_start', the LLM call.
planStart ==
  /\ runPc = "plan"
  /\ stageLog' = Append(stageLog, begun("planning"))
  /\ events' = Append(events, "planning_start")
  /\ llmCalls' = llmCalls + 1
  /\ runPc' = "planAwait"
  /\ UNCHANGED memVars
  /\ UNCHANGED acqVars
  /\ UNCHANGED curVars
  /\ UNCHANGED ctxVars
  /\ UNCHANGED <<searchCalls>>
  /\ UNCHANGED <<mode, cfgQuery, cfgSearchKey, cfgScraper, suspended, questions, searchSlots,
                 searchResults, validations, curated, scrapeInput, scrapedResults,
                 ctxSources, contextData, reportChunks, resultSources, updates, thrown,
                 outcome, cleanups, report>>
  /\ UNCHANGED auxVars

\* A planning that gives up its questions when the LLM call fails.
fallbackNoQuestions == <<>>

\* the catch block of planResearchOutline: `return [query]`; question 0 is the
\* query itself, the questions parsed from a response are 1, 2, ...
fallbackQuestions == <<0>>

\* The planning call settles: n questions parsed from the response, or on failure
\* the query itself as the only question.
planSettle(ok, n) ==
  /\ runPc = "planAwait"
  /\ questions' = IF ok THEN [i \in 1..n |-> i] ELSE fallbackQuestions
  /\ events' = IF ok THEN Append(events, "planning_complete") ELSE events
  /\ stageLog' = Append(stageLog, ended("planning"))
  /\ runPc' = Continuation(mode, "plan")
  /\ UNCHANGED memVars
  /\ UNCHANGED acqVars
  /\ UNCHANGED curVars
  /\ UNCHANGED ctxVars
  /\ UNCHANGED <<llmCalls, searchCalls>>
  /\ UNCHANGED <<mode, cfgQuery, cfgSearchKey, cfgScraper, suspended, searchSlots,
                 searchResults, validations, curated, scrapeInput, scrapedResults,
                 ctxSources, contextData, reportChunks, resultSources, updates, thrown,
                 outcome, cleanups, report>>
  /\ UNCHANGED auxVars

\* searchInformation up to Promise.allSettled: 'search_start', one searchSingleQuery
\* per question; without a provider key getRetriever returns null and nothing is
\* called.
searchStart ==
  /\ runPc = "search"
  /\ stageLog' = Append(stageLog, begun("search"))
  /\ events' = Append(events, "search_start")
  /\ searchSlots' =
       [i \in 1..Len(questions) |->
          [status |-> IF cfgSearchKey THEN "pending" ELSE "done", results |-> <<>>]]
  /\ searchCalls' = searchCalls + (IF cfgSearchKey THEN Len(questions) ELSE 0)
  /\ runPc' = "searchAwait"
  /\ UNCHANGED memVars
  /\ UNCHANGED acqVars
  /\ UNCHANGED curVars
  /\ UNCHANGED ctxVars
  /\ UNCHANGED <<llmCalls>>
  /\ UNCHANGED <<mode, cfgQuery, cfgSearchKey, cfgScraper, suspended, questions,
                 searchResults, validations, curated, scrapeInput, scrapedResults,
                 ctxSources, contextData, reportChunks, resultSources, updates, thrown,
                 outcome, cleanups, report>>
  /\ UNCHANGED auxVars

\* One searchSingleQuery settles with the results of its provider.
searchSettle(i, rs) ==
  /\ runPc = "searchAwait"
  /\ i \in 1..Len(searchSlots)
  /\ searchSlots[i].status = "pending"
  /\ searchSlots' = [searchSlots EXCEPT ![i] = [status |-> "done", results |-> rs]]
  /\ UNCHANGED memVars
  /\ UNCHANGED acqVars
  /\ UNCHANGED curVars
  /\ UNCHANGED ctxVars
  /\ UNCHANGED obsVars
  /\ UNCHANGED <<mode, cfgQuery, cfgSearchKey, cfgScraper, runPc, suspended, stageLog,
                 questions, searchResults, validations, curated, scrapeInput, scrapedResults,
                 ctxSources, contextData, reportChunks, resultSources, updates, thrown,
                 outcome, cleanups, report>>
  /\ UNCHANGED auxVars

\* Promise.allSettled resolves: memory.addSearchResults per question,
\* deduplicateResults, 'search_complete'.
searchJoin ==
  /\ runPc = "searchAwait"
  /\ \A i \in 1..Len(searchSlots) : searchSlots[i].status = "done"
  /\ \E allResults \in {flatten([i \in 1..Len(searchSlots) |-> searchSlots[i].results])} :
       /\ visitedUrls' = visitedUrls \cup seqRange(allResults)
       /\ \E unique \in {deduplicateResults(asResults(allResults))} :
            searchResults' = [k \in 1..Len(unique) |-> unique[k].url]
  /\ searchQueries' = searchQueries + Len(searchSlots)
  /\ events' = Append(events, "search_complete")
  /\ stageLog' = Append(stageLog, ended("search"))
  /\ runPc' = Continuation(mode, "search")
  /\ UNCHANGED <<scrapedContent>>
  /\ UNCHANGED acqVars
  /\ UNCHANGED curVars
  /\ UNCHANGED ctxVars
  /\ UNCHANGED <<llmCalls, searchCalls>>
  /\ UNCHANGED <<mode, cfgQuery, cfgSearchKey, cfgScraper, suspended, questions, searchSlots,
                 validations, curated, scrapeInput, scrapedResults, ctxSources, contextData,
                 reportChunks, resultSources, updates, thrown, outcome, cleanups, report>>
  /\ UNCHANGED auxVars

\* sourceCurator.curateSearchResults(searchResults, criteria).
curate ==
  /\ runPc = "curate"
  /\ \E v \in {validateFrom(searchResults, domainScores)} :
       /\ validations' = v.validations
       /\ domainScores' = v.cache
       /\ curated' = curateSearchResults(searchResults, v.validations)
  /\ events' = events \o <<"curation_start", "curation_complete">>
  /\ stageLog' = stageLog \o <<begun("curation"), ended("curation")>>
  /\ runPc' = Continuation(mode, "curate")
  /\ UNCHANGED memVars
  /\ UNCHANGED acqVars
  /\ UNCHANGED ctxVars
  /\ UNCHANGED <<llmCalls, searchCalls>>
  /\ UNCHANGED <<mode, cfgQuery, cfgSearchKey, cfgScraper, suspended, questions, searchSlots,
                 searchResults, scrapeInput, scrapedResults, ctxSources, contextData,
                 reportChunks, resultSources, updates, thrown, outcome, cleanups, report>>
  /\ UNCHANGED auxVars

\* scrapeSearchResults(curatedResults.slice(0, 10), {maxConcurrency: 3}) up to its
\* await of scrapeUrls.
scrapeStart ==
  /\ runPc = "scrape"
  /\ stageLog' = Append(stageLog, begun("scraping"))
  /\ \E input \in {SubSeq(curated, 1, IF Len(curated) < TopN THEN Len(curated) ELSE TopN)} :
       /\ scrapeInput' = input
       /\ scrapeUrlsBegin("run", input, DefaultBatchSize, cfgScraper)
  /\ runPc' = "scrapeAwait"
  /\ UNCHANGED memVars
  /\ UNCHANGED curVars
  /\ UNCHANGED ctxVars
  /\ UNCHANGED <<mode, cfgQuery, cfgSearchKey, cfgScraper, suspended, questions, searchSlots,
                 searchResults, validations, curated, scrapedResults, ctxSources,
                 contextData, reportChunks, resultSources, updates, thrown, outcome,
                 cleanups, report>>
  /\ UNCHANGED auxVars

\* scrapeUrls has returned: scrapeSearchResults combines its results with the
\* search results and returns.
scrapeSearchResultsReturn ==
  /\ runPc = "scrapeAwait"
  /\ acqPc = "return"
  /\ acqCaller = "run"
  /\ \E combined \in {scrapeSearchResultsMap(scrapeInput, acqResults)} :
       /\ scrapedResults' = combined
       /\ scrapedContent' = storeScraped(scrapedContent, combined)
       /\ visitedUrls' =
            visitedUrls \cup {combined[i].url : i \in {j \in 1..Len(combined) : combined[j].scraped}}
  /\ acqReset
  /\ stageLog' = Append(stageLog, ended("scraping"))
  /\ runPc' = Continuation(mode, "scrape")
  /\ UNCHANGED <<searchQueries>>
  /\ UNCHANGED <<activeScrapers, acqCalls>>
  /\ UNCHANGED curVars
  /\ UNCHANGED ctxVars
  /\ UNCHANGED obsVars
  /\ UNCHANGED <<mode, cfgQuery, cfgSearchKey, cfgScraper, suspended, questions, searchSlots,
                 searchResults, validations, curated, scrapeInput, ctxSources, contextData,
                 reportChunks, resultSources, updates, thrown, outcome, cleanups, report>>
  /\ UNCHANGED auxVars

\* contextManager.buildContext(sources, llmProvider) up to its await.
contextStart ==
  /\ runPc = "context"
  /\ stageLog' = Append(stageLog, begun("context"))
  /\ events' = Append(events, "context_building_start")
  /\ \E srcs \in {withoutError(scrapedResults)} :
       /\ ctxSources' = srcs
       /\ IF buildContextThrows(cfgQuery, srcs)
          THEN /\ raise
               /\ UNCHANGED ctxVars
          ELSE /\ buildContextBegin("run",
                    [i \in 1..Len(srcs) |->
                       [relevance |-> contentRelevance(srcs[i].url, srcs[i].content),
                        tokens |-> contentTokens(srcs[i].content)]])
               /\ runPc' = "contextAwait"
               /\ UNCHANGED thrown
  /\ UNCHANGED memVars
  /\ UNCHANGED acqVars
  /\ UNCHANGED curVars
  /\ UNCHANGED <<llmCalls, searchCalls>>
  /\ UNCHANGED <<mode, cfgQuery, cfgSearchKey, cfgScraper, suspended, questions, searchSlots,
                 searchResults, validations, curated, scrapeInput, scrapedResults,
                 contextData, reportChunks, resultSources, updates, outcome, cleanups, report>>
  /\ UNCHANGED auxVars

\* buildContext has returned its context items.
contextReturn ==
  /\ runPc = "contextAwait"
  /\ ctxPc = "done"
  /\ ctxCaller = "run"
  /\ contextData' =
       [i \in 1..Len(compressed) |->
          [url |-> ctxSources[compressed[i].source].url, form |-> compressed[i].form]]
  /\ ctxReset
  /\ stageLog' = Append(stageLog, ended("context"))
  /\ runPc' = Continuation(mode, "context")
  /\ UNCHANGED memVars
  /\ UNCHANGED acqVars
  /\ UNCHANGED curVars
  /\ UNCHANGED obsVars
  /\ UNCHANGED <<mode, cfgQuery, cfgSearchKey, cfgScraper, suspended, questions, searchSlots,
                 searchResults, validations, curated, scrapeInput, scrapedResults,
                 ctxSources, reportChunks, resultSources, updates, thrown, outcome, cleanups, report>>
  /\ UNCHANGED auxVars

\* generateReport / generateReportStream up to the LLM call; researchContext.sources
\* are the curated results.
reportStart ==
  /\ runPc = "report"
  /\ stageLog' = Append(stageLog, begun("report"))
  /\ events' = IF mode = "batch" THEN Append(events, "report_generation_start") ELSE events
  /\ resultSources' = curated
  /\ llmCalls' = llmCalls + 1
  /\ runPc' = "reportAwait"
  /\ UNCHANGED memVars
  /\ UNCHANGED acqVars
  /\ UNCHANGED curVars
  /\ UNCHANGED ctxVars
  /\ UNCHANGED <<searchCalls>>
  /\ UNCHANGED <<mode, cfgQuery, cfgSearchKey, cfgScraper, suspended, questions, searchSlots,
                 searchResults, validations, curated, scrapeInput, scrapedResults,
                 ctxSources, contextData, reportChunks, updates, thrown, outcome, cleanups, report>>
  /\ UNCHANGED auxVars

\* The LLM call of the report fails: generateReport rethrows.
reportFail ==
  /\ runPc = "reportAwait"
  /\ raise
  /\ UNCHANGED memVars
  /\ UNCHANGED acqVars
  /\ UNCHANGED curVars
  /\ UNCHANGED ctxVars
  /\ UNCHANGED obsVars
  /\ UNCHANGED <<mode, cfgQuery, cfgSearchKey, cfgScraper, suspended, stageLog, questions,
                 searchSlots, searchResults, validations, curated, scrapeInput,
                 scrapedResults, ctxSources, contextData, reportChunks, resultSources,
                 updates, outcome, cleanups, report>>
  /\ UNCHANGED auxVars

\* generateReportStream hands over one more chunk of the report.
reportChunk ==
  /\ runPc = "reportAwait"
  /\ mode = "stream"
  /\ reportChunks < MaxReportChunks
  /\ reportChunks' = reportChunks + 1
  /\ runPc' = "y_chunk"
  /\ UNCHANGED memVars
  /\ UNCHANGED acqVars
  /\ UNCHANGED curVars
  /\ UNCHANGED ctxVars
  /\ UNCHANGED obsVars
  /\ UNCHANGED <<mode, cfgQuery, cfgSearchKey, cfgScraper, suspended, stageLog, questions,
                 searchSlots, searchResults, validations, curated, scrapeInput,
                 scrapedResults, ctxSources, contextData, resultSources, updates, thrown,
                 outcome, cleanups, report>>
  /\ UNCHANGED auxVars

\* The report is complete: generateReport post-processes the completion,
\* generateReportStream has handed over its last chunk.
reportEnd ==
  /\ runPc = "reportAwait"
  /\ events' = IF mode = "batch" THEN Append(events, "report_generation_complete") ELSE events
  /\ stageLog' = Append(stageLog, ended("report"))
  /\ \E text \in LLMOutputs :
       report' = IF mode = "batch" THEN postProcessReport(text, curated)
                 ELSE fullReport(reportChunks)
  /\ runPc' = Continuation(mode, "report")
  /\ UNCHANGED memVars
  /\ UNCHANGED acqVars
  /\ UNCHANGED curVars
  /\ UNCHANGED ctxVars
  /\ UNCHANGED <<llmCalls, searchCalls>>
  /\ UNCHANGED <<mode, cfgQuery, cfgSearchKey, cfgScraper, suspended, questions, searchSlots,
                 searchResults, validations, curated, scrapeInput, scrapedResults,
                 ctxSources, contextData, reportChunks, resultSources, updates, thrown,
                 outcome, cleanups>>
  /\ UNCHANGED auxVars

\* conductResearch: addReferences, the result, 'research_complete', return result.
finish ==
  /\ runPc = "finish"
  /\ report' = addReferences(report, curated)
  /\ resultSources' = curated
  /\ events' = Append(events, "research_complete")
  /\ runPc' = Continuation(mode, "finish")
  /\ UNCHANGED memVars
  /\ UNCHANGED acqVars
  /\ UNCHANGED curVars
  /\ UNCHANGED ctxVars
  /\ UNCHANGED <<llmCalls, searchCalls>>
  /\ UNCHANGED <<mode, cfgQuery, cfgSearchKey, cfgScraper, suspended, stageLog, questions,
                 searchSlots, searchResults, validations, curated, scrapeInput,
                 scrapedResults, ctxSources, contextData, reportChunks, updates, thrown,
                 outcome, cleanups>>
  /\ UNCHANGED auxVars

\* The catch block: conductResearch emits 'research_error' and rethrows,
\* streamResearch goes on to yield an error update.
catch ==
  /\ runPc = "catch"
  /\ events' = IF mode = "batch" THEN Append(events, "research_error") ELSE events
  /\ runPc' = Continuation(mode, "catch")
  /\ UNCHANGED memVars
  /\ UNCHANGED acqVars
  /\ UNCHANGED curVars
  /\ UNCHANGED ctxVars
  /\ UNCHANGED <<llmCalls, searchCalls>>
  /\ UNCHANGED <<mode, cfgQuery, cfgSearchKey, cfgScraper, suspended, stageLog, questions,
                 searchSlots, searchResults, validations, curated, scrapeInput,
                 scrapedResults, ctxSources, contextData, reportChunks, resultSources,
                 updates, thrown, outcome, cleanups, report>>
  /\ UNCHANGED auxVars

\* streamResearch: `throw error` after the error update has been taken.
streamRethrow ==
  /\ runPc = "rethrow"
  /\ thrown' = TRUE
  /\ runPc' = "finally"
  /\ UNCHANGED memVars
  /\ UNCHANGED acqVars
  /\ UNCHANGED curVars
  /\ UNCHANGED ctxVars
  /\ UNCHANGED obsVars
  /\ UNCHANGED <<mode, cfgQuery, cfgSearchKey, cfgScraper, suspended, stageLog, questions,
                 searchSlots, searchResults, validations, curated, scrapeInput,
                 scrapedResults, ctxSources, contextData, reportChunks, resultSources,
                 updates, outcome, cleanups, report>>
  /\ UNCHANGED auxVars

\* what the caller sees once the finally block is through
settled(pending) == IF pending THEN "rejected" ELSE "resolved"

\* The finally block: browserManager.cleanup() up to its first await; without a
\* scraper that has close() the registry is cleared at once.
cleanupStart ==
  /\ runPc = "finally"
  /\ IF "puppeteer" \in activeScrapers
     THEN /\ runPc' = "cleanup"
          /\ UNCHANGED <<activeScrapers, cleanups, outcome>>
     ELSE /\ activeScrapers' = cleanup(activeScrapers)
          /\ cleanups' = cleanups + 1
          /\ outcome' = settled(thrown)
          /\ runPc' = "done"
  /\ UNCHANGED memVars
  /\ UNCHANGED <<acqPc, acqCaller, acqUrls, acqType, batches, acqBatch, acqSlots, acqResults,
                 acqCalled, acqHits, cacheAtStart, acqCalls>>
  /\ UNCHANGED curVars
  /\ UNCHANGED ctxVars
  /\ UNCHANGED obsVars
  /\ UNCHANGED <<mode, cfgQuery, cfgSearchKey, cfgScraper, suspended, stageLog, questions,
                 searchSlots, searchResults, validations, curated, scrapeInput,
                 scrapedResults, ctxSources, contextData, reportChunks, resultSources,
                 updates, thrown, report>>
  /\ UNCHANGED auxVars

\* scraper.close() settles (a failure is caught): the registry is cleared.
cleanupClose ==
  /\ runPc = "cleanup"
  /\ activeScrapers' = cleanup(activeScrapers)
  /\ cleanups' = cleanups + 1
  /\ outcome' = settled(thrown)
  /\ runPc' = "done"
  /\ UNCHANGED memVars
  /\ UNCHANGED <<acqPc, acqCaller, acqUrls, acqType, batches, acqBatch, acqSlots, acqResults,
                 acqCalled, acqHits, cacheAtStart, acqCalls>>
  /\ UNCHANGED curVars
  /\ UNCHANGED ctxVars
  /\ UNCHANGED obsVars
  /\ UNCHANGED <<mode, cfgQuery, cfgSearchKey, cfgScraper, suspended, stageLog, questions,
                 searchSlots, searchResults, validations, curated, scrapeInput,
                 scrapedResults, ctxSources, contextData, reportChunks, resultSources,
                 updates, thrown, report>>
  /\ UNCHANGED auxVars

vars == <<memVars, acqVars, curVars, ctxVars, obsVars, runVars, auxVars>>

Init ==
  /\ MemInit /\ AcqInit /\ CurInit /\ CtxInit /\ ObsInit /\ RunIdle /\ AuxIdle
  /\ cfgQuery \in {"", "plain", "regex"}
  /\ cfgSearchKey \in BOOLEAN
  /\ cfgScraper \in ScraperTypes

Next ==
  \/ conductResearch
  \/ streamResearch
  \/ consumerNext
  \/ streamQuery
  \/ streamYield
  \/ planStart
  \/ \E n \in 0..MaxQuestions : planSettle(TRUE, n)
  \/ planSettle(FALSE, 0)
  \/ searchStart
  \/ \E i \in 1..MaxQuestions, rs \in ResultLists : searchSettle(i, rs)
  \/ searchJoin
  \/ curate
  \/ scrapeStart
  \/ scrapeBatchStart
  \/ \E i \in 1..DefaultBatchSize, out \in Contents \cup {"error"} : scrapeSettle(i, out)
  \/ scrapeBatchJoin
  \/ scrapeUrlsEnd
  \/ scrapeSearchResultsReturn
  \/ contextStart
  \/ selectLoop
  \/ selectReturn
  \/ compressLoop
  \/ \E ok \in BOOLEAN : compressSettle(ok)
  \/ compressReturn
  \/ contextReturn
  \/ reportStart
  \/ reportFail
  \/ reportChunk
  \/ reportEnd
  \/ finish
  \/ catch
  \/ streamRethrow
  \/ cleanupStart
  \/ cleanupClose

\* The pipeline: one run of a fresh GPTResearch instance.
Spec == Init /\ [][Next]_vars

\* The event loop runs every continuation that is ready, every pending provider
\* call settles, and the for-await consumer keeps asking for the next update.
FairSpec == Spec /\ WF_vars(Next)

InitApi ==
  /\ MemInit /\ AcqInit /\ CurInit /\ CtxInit /\ ObsInit /\ RunIdle /\ AuxIdle
  /\ cfgQuery = "plain"
  /\ cfgSearchKey = TRUE
  /\ cfgScraper = "cheerio"

NextAcq ==
  \/ \E urls \in SeqsUpTo(Urls, MaxUrls), batchSize \in {1, DefaultBatchSize},
        scraperType \in ScraperTypes : scrapeUrls(urls, batchSize, scraperType)
  \/ scrapeBatchStart
  \/ \E i \in 1..MaxUrls, out \in Contents \cup {"error"} : scrapeSettle(i, out)
  \/ scrapeBatchJoin
  \/ scrapeUrlsEnd
  \/ scrapeUrlsReturn
  \/ cleanupCall

\* The BrowserManager alone, driven through its API.
SpecAcq == InitApi /\ [][NextAcq]_vars

NextCtx ==
  \/ \E b \in 0..MaxBudget : setMaxTokens(b * TokenUnit)
  \/ \E srcs \in SeqsUpTo(SourceContent, MaxChunks) : buildContext(srcs)
  \/ selectLoop
  \/ selectReturn
  \/ compressLoop
  \/ \E ok \in BOOLEAN : compressSettle(ok)
  \/ compressReturn
  \/ buildContextReturn

\* The ContextManager alone, driven through its API.
SpecCtx == InitApi /\ [][NextCtx]_vars

\* The lists handed to deduplicateResults: results with an identity (their place
\* in the list), a url that may repeat, and a score that may be missing.
DedupInputs ==
  {[i \in 1..Len(s) |-> [id |-> i, url |-> s[i].url, score |-> s[i].score]] :
     s \in SeqsUpTo([url : {u \in Urls : u.suffix = ""},
                     score : {{}} \cup {{v} : v \in 0..MaxScore}], MaxDedupLen)}

InitDedup ==
  /\ MemInit /\ AcqInit /\ CurInit /\ CtxInit /\ ObsInit /\ RunIdle /\ RetryIdle /\ InstIdle
  /\ ExtIdle
  /\ cfgQuery = "plain"
  /\ cfgSearchKey = TRUE
  /\ cfgScraper = "cheerio"
  /\ callArg \in DedupInputs
  /\ callRet = <<>>

\* deduplicateResults(results) is called and returns.
deduplicateCall ==
  /\ callRet = <<>>
  /\ callRet' = <<deduplicateResults(callArg)>>
  /\ UNCHANGED callArg
  /\ UNCHANGED <<memVars, acqVars, curVars, ctxVars, obsVars, runVars, retryVars, instVars,
               extVars>>

\* deduplicateResults alone, on every list of results.
SpecDedup == InitDedup /\ [][deduplicateCall]_vars

\* The sources and criteria handed to validateSource: one url that does not
\* parse, and every combination of what the function reads of a source, on a
\* domain described by what it matches or on a named host.
ValidateSources ==
  [malformed : {FALSE}, https : BOOLEAN,
   domain : [name : {<<"host">>}, trusted : BOOLEAN, blocked : BOOLEAN, tld : {"com", "gov", "info"}]
              \cup {domainOfHost(host) : host \in Hosts},
   dated : {"none", "recent", "old"}, length : {0, 1200}, author : BOOLEAN,
   cites : BOOLEAN, title : {"missing", "short", "long", "clickbait"}]
  \cup {[sourceOf([page |-> 3, suffix |-> ""]) EXCEPT !.malformed = TRUE]}

ValidateCriteria ==
  [requireHttps : BOOLEAN, allowedDomains : {"none", "other"},
   blockedDomains : {"none", "match"}, maxAge : BOOLEAN, requireDate : BOOLEAN,
   minContentLength : {0, 1000}, minCredibilityScore : {0, MinCredibilityScore}]

\* A SourceCurator that has, or has not, seen the domain of the source before.
InitValidate ==
  /\ MemInit /\ AcqInit /\ CtxInit /\ ObsInit /\ RunIdle /\ RetryIdle /\ InstIdle
  /\ ExtIdle
  /\ cfgQuery = "plain"
  /\ cfgSearchKey = TRUE
  /\ cfgScraper = "cheerio"
  /\ callArg \in [source : ValidateSources, criteria : ValidateCriteria]
  /\ domainScores \in {<<>>, checkDomain(callArg.source.domain, <<>>).cache}
  /\ callRet = <<>>

\* validateSource(source, criteria) is called and returns its validation.
validateCall ==
  /\ callRet = <<>>
  /\ \E v \in {validateSource(callArg.source, callArg.criteria, domainScores)} :
       /\ callRet' = <<[isValid |-> v.isValid, credibilityScore |-> v.credibilityScore]>>
       /\ domainScores' = v.cache
  /\ UNCHANGED callArg
  /\ UNCHANGED <<memVars, acqVars, ctxVars, obsVars, runVars, retryVars, instVars,
               extVars>>

\* validateSource alone, on every source and criteria.
SpecValidate == InitValidate /\ [][validateCall]_vars

(***************************************************************************)
(* The retry loops: BaseScraper.retry (src/src/scrapers/CheerioScraper.ts)  *)
(* around axios.get in CheerioScraper.fetchHtml, BaseRetriever.retry (no   *)
(* retriever of the repository calls it), LLMProvider.retry around the     *)
(* chat completion, and PuppeteerScraper, which calls page.goto once,      *)
(* without a loop.                                                         *)
(***************************************************************************)
Components == {"cheerio", "puppeteer", "retriever", "llm"}

\* How an invocation of fn can end: with a value, with a timeout, or with an
\* authentication failure.  The error of an authentication failure carries the
\* HTTP status where the client library puts it (error.response.status); it may
\* or may not also have the statusCode property the retry loops look at
\* (statusCode 0: the property is undefined).
FnOutcomes ==
  {[ok |-> TRUE, status |-> 200, statusCode |-> 0],
   [ok |-> FALSE, status |-> 0, statusCode |-> 0],
   [ok |-> FALSE, status |-> 401, statusCode |-> 0],
   [ok |-> FALSE, status |-> 401, statusCode |-> 401]}

\* the retries a call starts with: `retries ?? this.config.maxRetries ?? 3`,
\* `retries: number = 3`; PuppeteerScraper.scrape has no retry loop
retriesOf(c) == IF c = "puppeteer" THEN 0 ELSE MaxRetries

\* the test that ends the loop besides retries === 0: BaseRetriever.retry and
\* LLMProvider.retry have `error?.statusCode === 401`, BaseScraper.retry has none
givesUp(c, error) == c \in {"retriever", "llm"} /\ error.statusCode = 401

\* retry(fn) is called: fn is invoked at once.
retryCall(c) ==
  /\ retryPc = "idle"
  /\ retryOf' = c
  /\ retriesLeft' = retriesOf(c)
  /\ delay' = FirstDelay
  /\ retryPc' = "await"
  /\ UNCHANGED <<attempts, sleeps, retryResult>>
  /\ UNCHANGED <<memVars, acqVars, curVars, ctxVars, obsVars, runVars, callVars, instVars,
               extVars>>

\* The invocation settles: its value is returned, or the catch block throws the
\* error or starts the timer.
fnSettle(res) ==
  /\ retryPc = "await"
  /\ attempts' = Append(attempts, res)
  /\ IF res.ok
     THEN retryPc' = "done" /\ retryResult' = "ok"
     ELSE IF retriesLeft = 0 \/ givesUp(retryOf, res)
          THEN retryPc' = "done" /\ retryResult' = "error"
          ELSE retryPc' = "sleep" /\ UNCHANGED retryResult
  /\ UNCHANGED <<retryOf, retriesLeft, delay, sleeps>>
  /\ UNCHANGED <<memVars, acqVars, curVars, ctxVars, obsVars, runVars, callVars, instVars,
               extVars>>

\* The timer fires: retry(fn, retries - 1, delay * 2) invokes fn again.
timerFires ==
  /\ retryPc = "sleep"
  /\ sleeps' = Append(sleeps, delay)
  /\ retriesLeft' = retriesLeft - 1
  /\ delay' = delay * 2
  /\ retryPc' = "await"
  /\ UNCHANGED <<retryOf, attempts, retryResult>>
  /\ UNCHANGED <<memVars, acqVars, curVars, ctxVars, obsVars, runVars, callVars, instVars,
               extVars>>

NextRetry ==
  \/ \E c \in Components : retryCall(c)
  \/ \E res \in FnOutcomes : fnSettle(res)
  \/ timerFires

\* One network call of one component.
SpecRetry == InitApi /\ [][NextRetry]_vars

(***************************************************************************)
(* Several GPTResearch instances in one process: the constructor           *)
(* (src/src/core/Agent.ts), Config.getInstance (src/unnamed/part_003) and  *)
(* what a run reads of the configuration and reads and writes of the       *)
(* memory of its instance.                                                 *)
(***************************************************************************)
\* the ResearchConfig objects handed to the constructor; reportType is optional
ResearchConfigs == [query : {"q1", "q2"}, reportType : {"undefined", "outline"}]

\* loadDefaultConfig: reportType: ReportType.ResearchReport
DefaultReportType == "research"

\* applyOverrides: { ...this.config, ...overrides }
applyOverrides(config, overrides) ==
  [query |-> overrides.query,
   reportType |-> IF overrides.reportType = "undefined" THEN config.reportType
                  ELSE overrides.reportType]

\* Config.getInstance(overrides): the first call constructs the singleton, every
\* later call updates it
getInstance(instance, overrides) ==
  IF instance = {}
  THEN {applyOverrides([query |-> "", reportType |-> DefaultReportType], overrides)}
  ELSE {applyOverrides(config, overrides) : config \in instance}

\* new GPTResearch(config)
construct(i, config) ==
  /\ ctorConfig[i] = {}
  /\ ctorConfig' = [ctorConfig EXCEPT ![i] = {config}]
  /\ configInstance' = getInstance(configInstance, config)
  /\ instMemory' = [instMemory EXCEPT ![i] = EmptyMemory]
  /\ UNCHANGED runState
  /\ UNCHANGED <<memVars, acqVars, curVars, ctxVars, obsVars, runVars, callVars, retryVars,
               extVars>>

\* conductResearch / streamResearch of instance i begins: const query =
\* this.config.get('query').
runStart(r, i) ==
  /\ ctorConfig[i] # {}
  /\ runState[r].pc = "idle"
  /\ \E config \in configInstance :
       runState' = [runState EXCEPT ![r] =
                      [@ EXCEPT !.inst = i, !.pc = "search", !.query = config.query,
                                !.memAtStart = instMemory[i]]]
  /\ UNCHANGED <<configInstance, ctorConfig, instMemory>>
  /\ UNCHANGED <<memVars, acqVars, curVars, ctxVars, obsVars, runVars, callVars, retryVars,
               extVars>>

\* searchInformation: memory.addSearchResults stores the results and marks their
\* urls visited.
runSearch(r, found) ==
  /\ runState[r].pc = "search"
  /\ instMemory' = [instMemory EXCEPT ![runState[r].inst] =
                      [@ EXCEPT !.searchResults = @ \cup found,
                                !.visitedUrls = @ \cup found]]
  /\ runState' = [runState EXCEPT ![r].pc = "scrape"]
  /\ UNCHANGED <<configInstance, ctorConfig>>
  /\ UNCHANGED <<memVars, acqVars, curVars, ctxVars, obsVars, runVars, callVars, retryVars,
               extVars>>

\* scrapeSearchResults: memory.addScrapedContent for the pages that were scraped.
runScrape(r, scraped) ==
  /\ runState[r].pc = "scrape"
  /\ scraped \subseteq instMemory[runState[r].inst].searchResults
  /\ instMemory' = [instMemory EXCEPT ![runState[r].inst] =
                      [@ EXCEPT !.scrapedContent = @ \cup scraped,
                                !.visitedUrls = @ \cup scraped]]
  /\ runState' = [runState EXCEPT ![r].pc = "context"]
  /\ UNCHANGED <<configInstance, ctorConfig>>
  /\ UNCHANGED <<memVars, acqVars, curVars, ctxVars, obsVars, runVars, callVars, retryVars,
               extVars>>

\* buildContext and the research context: createContextChunks reads
\* this.config.get('query'), memory.addContext stores the context, and the
\* orchestrator reads this.config.get('reportType').
runContext(r) ==
  /\ runState[r].pc = "context"
  /\ instMemory' = [instMemory EXCEPT ![runState[r].inst] =
                      [@ EXCEPT !.context = @ \cup instMemory[runState[r].inst].scrapedContent]]
  /\ \E config \in configInstance :
       runState' = [runState EXCEPT ![r] =
                      [@ EXCEPT !.pc = "done", !.ctxQuery = config.query,
                                !.reportType = config.reportType]]
  /\ UNCHANGED <<configInstance, ctorConfig>>
  /\ UNCHANGED <<memVars, acqVars, curVars, ctxVars, obsVars, runVars, callVars, retryVars,
               extVars>>

NextInst ==
  \/ \E i \in 1..MaxInstances, config \in ResearchConfigs : construct(i, config)
  \/ \E r \in 1..MaxRuns, i \in 1..MaxInstances : runStart(r, i)
  \/ \E r \in 1..MaxRuns, found \in SUBSET (1..MaxPages) : runSearch(r, found)
  \/ \E r \in 1..MaxRuns, scraped \in SUBSET (1..MaxPages) : runScrape(r, scraped)
  \/ \E r \in 1..MaxRuns : runContext(r)

\* Instances and runs of one process.
SpecInst == InitApi /\ [][NextInst]_vars

(***************************************************************************)
(* The LLM provider (src/src/providers/openai/OpenAIProvider.ts) and the    *)
(* 'usage' listener of GPTResearch.setupEventHandlers.                      *)
(***************************************************************************)

\* the variables of the pipeline and of its skills
coreVars == <<memVars, acqVars, curVars, ctxVars, obsVars, runVars>>

\* what the actions of the provider leave alone
usageFrame == <<coreVars, callVars, retryVars, instVars, wmVars, srchVars, prioVars, wsVars>>

\* the skills' calls of createChatCompletion: planResearchOutline, compressChunk
\* and generateReport
Capabilities == {"planning", "compression", "synthesis"}

\* response.usage of a completion: prompt_tokens and completion_tokens
Usages == [input : 1..MaxTokens, output : 1..MaxTokens]

\* how the API answers a request: with content, with a choice that has no content
\* (only the prompt was processed), or with an error after the retries
Responses ==
  {[kind |-> "content", input |-> u.input, output |-> u.output] : u \in Usages}
    \cup {[kind |-> "empty", input |-> i, output |-> 0] : i \in 1..MaxTokens}
    \cup {[kind |-> "error", input |-> 0, output |-> 0]}

\* initializeModelCosts: the price of an output token is three times that of an
\* input token (gpt-4-turbo, gpt-3.5-turbo)
modelCosts == [input |-> 1, output |-> 3]

\* estimateCost(' '.repeat(inputTokens * 4), ' '.repeat(outputTokens * 4), model)
estimateCost(inputTokens, outputTokens) ==
  inputTokens * modelCosts.input + outputTokens * modelCosts.output

\* createChatCompletion(messages, options) of a skill: the usage is emitted after
\* the content check, and only then; the listener adds it to the totals.
createChatCompletion(capability, res) ==
  /\ Len(invocations) < MaxLLMCalls
  /\ \E reported \in {res.kind = "content"} :
       /\ invocations' = Append(invocations, [capability |-> capability, streamed |-> FALSE,
                                        input |-> res.input, output |-> res.output,
                                        reported |-> reported])
       /\ tokensUsed' = IF reported THEN tokensUsed + res.input + res.output ELSE tokensUsed
       /\ totalCost' = IF reported THEN totalCost + estimateCost(res.input, res.output)
                                   ELSE totalCost
  /\ UNCHANGED usageFrame

\* createChatCompletionStream(messages, options) of generateReportStream, consumed
\* to its end: the chunks are yielded and nothing is emitted.
createChatCompletionStream(res) ==
  /\ Len(invocations) < MaxLLMCalls
  /\ res.kind # "empty"
  /\ invocations' = Append(invocations, [capability |-> "synthesis", streamed |-> TRUE,
                                   input |-> res.input, output |-> res.output,
                                   reported |-> FALSE])
  /\ UNCHANGED <<tokensUsed, totalCost>>
  /\ UNCHANGED usageFrame

NextUsage ==
  \/ \E capability \in Capabilities, res \in Responses : createChatCompletion(capability, res)
  \/ \E res \in Responses : createChatCompletionStream(res)

\* The LLM calls of one instance and its totals.
SpecUsage == InitApi /\ [][NextUsage]_vars

\* the tokens and the cost of the invocations made so far
RECURSIVE usedBy(_)
usedBy(calls) ==
  IF calls = <<>> THEN [tokens |-> 0, cost |-> 0]
  ELSE LET rest == usedBy(Tail(calls))
           c == Head(calls)
       IN [tokens |-> rest.tokens + c.input + c.output,
           cost |-> rest.cost + estimateCost(c.input, c.output)]

(***************************************************************************)
(* Memory (src/src/core/Memory.ts) as a class of its own.                   *)
(***************************************************************************)
\* what the actions of the Memory API leave alone
wmFrame == <<coreVars, callVars, retryVars, instVars, usageVars, srchVars, prioVars, wsVars>>

\* Map.prototype.set: the value of a present key is replaced in place, a new key
\* goes to the end
mapSetOrdered(m, k, v) ==
  [keys |-> IF k \in seqRange(m.keys) THEN m.keys ELSE Append(m.keys, k),
   values |-> mapSet(m.values, k, v)]

\* Array.from(map.entries()): the pairs [key, value] in insertion order
mapEntries(m) == [i \in 1..Len(m.keys) |-> <<m.keys[i], m.values[m.keys[i]]>>]

\* Set.prototype.add
setAdd(items, x) == IF x \in seqRange(items) THEN items ELSE Append(items, x)

\* new Map(pairs)
RECURSIVE newMap(_)
newMap(pairs) ==
  IF pairs = <<>> THEN EmptyMap
  ELSE LET front == newMap(SubSeq(pairs, 1, Len(pairs) - 1))
           last == pairs[Len(pairs)]
       IN mapSetOrdered(front, last[1], last[2])

\* new Set(items)
RECURSIVE newSet(_)
newSet(items) ==
  IF items = <<>> THEN <<>>
  ELSE setAdd(newSet(SubSeq(items, 1, Len(items) - 1)), items[Len(items)])

\* this.entriesByType.get(type) || []
getByType(mem, type) ==
  IF type \in seqRange(mem.entriesByType.keys) THEN mem.entriesByType.values[type] ELSE <<>>

\* Memory.add(type, content)
add(mem, type, content) ==
  LET entry == [id |-> <<type, mem.nextId>>, type |-> type, content |-> content]
  IN [mem EXCEPT !.entries = mapSetOrdered(@, entry.id, entry),
                 !.entriesByType = mapSetOrdered(@, type, Append(getByType(mem, type), entry)),
                 !.nextId = @ + 1]

\* Memory.addSearchResults(query, results)
addSearchResults(mem, query, results) ==
  LET withQuery == add(mem, "searchQueries", query)
  IN [withQuery EXCEPT
        !.searchResults = @ \o results,
        !.visitedUrls = newSet(@ \o [i \in 1..Len(results) |-> results[i].url])]

\* Memory.getSearchResults(): the one list of the instance; an argument given by
\* the caller is not read
getSearchResults(mem, query) == mem.searchResults

\* Memory.getStats(): the counts, and one count per entry type in Map order
getStats(mem) ==
  [totalEntries |-> Len(mem.entries.keys),
   searchQueries |-> Len(getByType(mem, "searchQueries")),
   searchResults |-> Len(mem.searchResults),
   scrapedUrls |-> Len(mem.scrapedContent.keys),
   visitedUrls |-> Len(mem.visitedUrls),
   reports |-> Len(mem.reports.keys),
   contextItems |-> Len(mem.context),
   subtopics |-> Len(mem.subtopics),
   researchResults |-> Len(mem.researchResults),
   byType |-> [i \in 1..Len(mem.entriesByType.keys) |->
                 <<mem.entriesByType.keys[i],
                   Len(mem.entriesByType.values[mem.entriesByType.keys[i]])>>]]

\* Memory.export(): Array.from of every Map and Set, the arrays as they are
export(mem) ==
  [entries |-> mapEntries(mem.entries),
   entriesByType |-> mapEntries(mem.entriesByType),
   searchResults |-> mem.searchResults,
   scrapedContent |-> mapEntries(mem.scrapedContent),
   visitedUrls |-> mem.visitedUrls,
   reports |-> mapEntries(mem.reports),
   context |-> mem.context,
   subtopics |-> mem.subtopics,
   researchResults |-> mem.researchResults,
   nextId |-> mem.nextId]

\* An import that leaves the entries-by-type index empty.
importWithoutTypes(mem, data) ==
  [mem EXCEPT !.entries = newMap(data.entries),
              !.searchResults = data.searchResults,
              !.scrapedContent = newMap(data.scrapedContent),
              !.visitedUrls = newSet(data.visitedUrls),
              !.reports = newMap(data.reports),
              !.context = data.context,
              !.subtopics = newSet(data.subtopics),
              !.researchResults = data.researchResults,
              !.nextId = IF data.nextId # 0 THEN data.nextId ELSE @]

\* Memory.import(data) of an exported object: every field that is present (an
\* array is, even when empty) replaces the instance's
import(mem, data) ==
  [mem EXCEPT !.entries = newMap(data.entries),
              !.entriesByType = newMap(data.entriesByType),
              !.searchResults = data.searchResults,
              !.scrapedContent = newMap(data.scrapedContent),
              !.visitedUrls = newSet(data.visitedUrls),
              !.reports = newMap(data.reports),
              !.context = data.context,
              !.subtopics = newSet(data.subtopics),
              !.researchResults = data.researchResults,
              !.nextId = IF data.nextId # 0 THEN data.nextId ELSE @]

\* the values the callers of the Memory API pass
MemTypes == {"note", "searchQueries"}
MemQueries == {"q1", "q2"}
MemResults ==
  {<<>>, <<[url |-> 1]>>, <<[url |-> 2]>>, <<[url |-> 1], [url |-> 2]>>}

\* one add operation on the instance, before it is exported
memOp(after) ==
  /\ exported = <<>>
  /\ memOps < MaxMemOps
  /\ memOps' = memOps + 1
  /\ memory' = after
  /\ UNCHANGED <<exported, newMemory, sharing, mutated>>
  /\ UNCHANGED wmFrame

addCall(type) ==
  /\ memOp(add(memory, type, "content"))
  /\ UNCHANGED added

addSearchResultsCall(query, results) ==
  /\ memOp(addSearchResults(memory, query, results))
  /\ added' = Append(added, [query |-> query, results |-> results])

\* addScrapedContent(url, content)
addScrapedContent(url) ==
  /\ memOp([memory EXCEPT !.scrapedContent = mapSetOrdered(@, url, "content"),
                          !.visitedUrls = setAdd(@, url)])
  /\ UNCHANGED added

\* addReport(reportType, report)
addReport(reportType) ==
  /\ memOp([memory EXCEPT !.reports = mapSetOrdered(@, reportType, "report")])
  /\ UNCHANGED added

\* addContext(context)
addContext ==
  /\ memOp([memory EXCEPT !.context = Append(@, "context")])
  /\ UNCHANGED added

\* addSubtopic(subtopic)
addSubtopic(subtopic) ==
  /\ memOp([memory EXCEPT !.subtopics = setAdd(@, subtopic)])
  /\ UNCHANGED added

\* addResearchResult(result)
addResearchResult ==
  /\ memOp([memory EXCEPT !.researchResults = Append(@, "result")])
  /\ UNCHANGED added

\* The arrays export() hands over as they are, by reference: the three array
\* fields, and the entries array of every type as the second item of its pair.
exportedArrays(mem) ==
  {"searchResults", "context", "researchResults"} \cup seqRange(mem.entriesByType.keys)

\* const exported = memory.export()
exportCall ==
  /\ exported = <<>>
  /\ exported' = <<export(memory)>>
  /\ sharing' = [f \in ArrayFields |->
                   IF f \in exportedArrays(memory) THEN {"memory", "exported"} ELSE {}]
  /\ UNCHANGED <<memory, memOps, added, newMemory, mutated>>
  /\ UNCHANGED wmFrame

\* const newMemory = new Memory(); newMemory.import(exported): the arrays of the
\* exported object become the arrays of the new instance (this.context =
\* parsedData.context; the values of new Map(parsedData.entriesByType)).
importCall ==
  /\ exported # <<>>
  /\ newMemory = <<>>
  /\ newMemory' = <<import(NewMemory, exported[1])>>
  /\ sharing' = [f \in ArrayFields |->
                   IF "exported" \in sharing[f] THEN sharing[f] \cup {"newMemory"}
                   ELSE sharing[f]]
  /\ UNCHANGED <<memory, memOps, added, exported, mutated>>
  /\ UNCHANGED wmFrame

\* array.push(...items) on the array f of an instance
pushOnMemory(mem, f, items) ==
  IF f \in MemTypes
  THEN [mem EXCEPT !.entriesByType.values[f] = @ \o items]
  ELSE [mem EXCEPT ![f] = @ \o items]

\* the same push, seen through the exported object
pushOnExport(data, f, items) ==
  IF f \in MemTypes
  THEN [data EXCEPT !.entriesByType =
          [i \in 1..Len(@) |-> IF @[i][1] = f THEN <<f, @[i][2] \o items>> ELSE @[i]]]
  ELSE [data EXCEPT ![f] = @ \o items]

\* What the pushes ps made through the instance h do to another holder of the
\* same arrays.
RECURSIVE seenBy(_, _, _, _)
seenBy(holder, value, h, ps) ==
  IF ps = <<>> THEN value
  ELSE LET p == Head(ps)
           next == IF {h, holder} \subseteq sharing[p.field]
                   THEN IF holder = "exported"
                        THEN pushOnExport(value, p.field, p.items)
                        ELSE pushOnMemory(value, p.field, p.items)
                   ELSE value
       IN seenBy(holder, next, h, Tail(ps))

instanceOf(h) == IF h = "memory" THEN memory ELSE newMemory[1]

\* A mutation of the instance h after the import: `after` is h itself afterwards,
\* ps are the pushes the operation made on arrays that existed before, and
\* reassigned tells whether it replaced h's arrays by new ones.
later(h, after, ps, reassigned) ==
  /\ Len(mutated) < MaxLaterOps
  /\ mutated' = Append(mutated, h)
  /\ memory' = IF h = "memory" THEN after ELSE seenBy("memory", memory, h, ps)
  /\ newMemory' = IF h = "newMemory" THEN <<after>>
                  ELSE <<seenBy("newMemory", newMemory[1], h, ps)>>
  /\ exported' = <<seenBy("exported", exported[1], h, ps)>>
  /\ sharing' = IF reassigned THEN [f \in ArrayFields |-> sharing[f] \ {h}] ELSE sharing
  /\ UNCHANGED <<memOps, added>>
  /\ UNCHANGED wmFrame

\* the entry add(type, content) makes
entryOf(mem, type) == [id |-> <<type, mem.nextId>>, type |-> type, content |-> "content"]

\* the push of add(type, content) on an entries array that is there already
entryPush(mem, type) ==
  IF type \in seqRange(mem.entriesByType.keys)
  THEN <<[field |-> type, items |-> <<entryOf(mem, type)>>]>>
  ELSE <<>>

\* add(type, content) on one of the two instances
laterAdd(h, type) ==
  /\ newMemory # <<>>
  /\ later(h, add(instanceOf(h), type, "content"), entryPush(instanceOf(h), type), FALSE)

\* addSearchResults(query, results) on one of the two instances
laterAddSearchResults(h, query, results) ==
  /\ newMemory # <<>>
  /\ later(h, addSearchResults(instanceOf(h), query, results),
           entryPush(instanceOf(h), "searchQueries")
             \o <<[field |-> "searchResults", items |-> results]>>,
           FALSE)

\* addContext(context) on one of the two instances
laterAddContext(h) ==
  /\ newMemory # <<>>
  /\ later(h, [instanceOf(h) EXCEPT !.context = Append(@, "context")],
           <<[field |-> "context", items |-> <<"context">>]>>, FALSE)

\* addSubtopic(subtopic) on one of the two instances: a Set of the instance's own
laterAddSubtopic(h, subtopic) ==
  /\ newMemory # <<>>
  /\ later(h, [instanceOf(h) EXCEPT !.subtopics = setAdd(@, subtopic)], <<>>, FALSE)

\* clear() on one of the two instances: the Maps and Sets are emptied, the three
\* array fields get new arrays
clear(h) ==
  /\ newMemory # <<>>
  /\ later(h, NewMemory, <<>>, TRUE)

NextMemory ==
  \/ \E type \in MemTypes : addCall(type)
  \/ \E query \in MemQueries, results \in MemResults : addSearchResultsCall(query, results)
  \/ \E url \in 1..MaxPages : addScrapedContent(url)
  \/ \E reportType \in {"research", "outline"} : addReport(reportType)
  \/ addContext
  \/ \E subtopic \in {"t1", "t2"} : addSubtopic(subtopic)
  \/ addResearchResult
  \/ exportCall
  \/ importCall
  \/ \E h \in {"memory", "newMemory"}, type \in MemTypes : laterAdd(h, type)
  \/ \E h \in {"memory", "newMemory"} : laterAddSearchResults(h, "q1", <<[url |-> 1]>>)
  \/ \E h \in {"memory", "newMemory"} : laterAddContext(h)
  \/ \E h \in {"memory", "newMemory"} : laterAddSubtopic(h, "t1")
  \/ \E h \in {"memory", "newMemory"} : clear(h)

\* One Memory instance, its export, a fresh instance importing it, and what is
\* done with the two instances afterwards.
SpecMemory == InitApi /\ [][NextMemory]_vars

\* the results added under one query, in the order of the calls
RECURSIVE addedUnder(_, _)
addedUnder(calls, query) ==
  IF calls = <<>> THEN <<>>
  ELSE (IF Head(calls).query = query THEN Head(calls).results ELSE <<>>)
         \o addedUnder(Tail(calls), query)

(***************************************************************************)
(* ResearchConductor.searchInformation with its providers                   *)
(* (src/src/skills/ResearchConductor.ts): searchSingleQuery tries the       *)
(* retrievers of getAvailableRetrievers in turn.                            *)
(***************************************************************************)
\* what the actions of a search leave alone
srchFrame == <<acqVars, curVars, ctxVars, obsVars, runVars, callVars, retryVars, instVars,
               usageVars, wmVars, prioVars, wsVars>>

PotentialRetrievers == <<"tavily", "serper", "google">>

\* getAvailableRetrievers: the default retriever, then every other potential
\* retriever that has an API key
getAvailableRetrievers(cfg) ==
  <<cfg.defaultRetriever>>
    \o seqFilter(PotentialRetrievers, cfg.keys \ {cfg.defaultRetriever})

\* getRetriever(name) is null for a provider without an API key
getRetriever(cfg, name) == name \in cfg.keys

\* what retriever.search can answer: it throws, or returns a list of results
SearchAnswers ==
  {[threw |-> TRUE, results |-> <<>>]}
    \cup {[threw |-> FALSE, results |-> rs] :
            rs \in {s \in SeqsUpTo({u \in Urls : u.suffix = ""}, MaxResults) :
                      \A i, j \in 1..Len(s) : i < j => s[i].page < s[j].page}}

\* A loop that goes on to the next retriever whatever the results.
returnsNever(results) == FALSE

\* `if (results.length > 0) { ...; return results; }`
returnsResults(results) == Len(results) > 0

\* The for-of loop of searchSingleQuery from index `from` of the list on: it skips
\* the retrievers getRetriever gives null for and calls the first other one; at
\* the end of the list the last error is thrown to the outer catch, which emits
\* 'search_error' and returns [].
RECURSIVE loopFrom(_, _, _, _)
loopFrom(cfg, single, from, query) ==
  LET list == getAvailableRetrievers(cfg)
  IN IF from > Len(list)
     THEN [single |-> [single EXCEPT !.status = "fulfilled", !.value = <<>>],
           events |-> IF single.lastError
                      THEN <<[name |-> "search_error", query |-> query]>> ELSE <<>>]
     ELSE IF ~getRetriever(cfg, list[from])
          THEN loopFrom(cfg, single, from + 1, query)
          ELSE [single |-> [single EXCEPT
                              !.idx = from,
                              !.calls = Append(@, [retriever |-> list[from],
                                                   result |-> "pending", results |-> <<>>])],
                events |-> <<>>]

\* a searchSingleQuery that has not entered its loop
NewSingle == [idx |-> 0, calls |-> <<>>, lastError |-> FALSE, status |-> "pending", value |-> <<>>]

\* the events of several queries, one list after the other
RECURSIVE eventsOf(_, _)
eventsOf(steps, n) == IF n = 0 THEN <<>> ELSE eventsOf(steps, n - 1) \o steps[n].events

\* searchInformation(queries) up to Promise.allSettled: 'search_start', and every
\* searchSingleQuery runs up to its first retriever.search.
searchInformation(n) ==
  /\ srchPc = "idle"
  /\ srchReturn = <<>>
  /\ \E steps \in {[q \in 1..n |-> loopFrom(retrieverCfg, NewSingle, 1, q)]} :
       /\ singles' = [q \in 1..n |-> steps[q].single]
       /\ conductorEvents' = <<[name |-> "search_start", query |-> 0]>> \o eventsOf(steps, n)
  /\ srchPc' = "await"
  /\ UNCHANGED <<retrieverCfg, srchReturn>>
  /\ UNCHANGED memVars
  /\ UNCHANGED srchFrame

\* retriever.search of query q settles: results that are not empty are returned
\* ('search_success'), an error is kept as lastError ('retriever_error'), and
\* otherwise the loop goes on.
retrieverSettle(q, answer) ==
  /\ srchPc = "await"
  /\ q \in 1..Len(singles)
  /\ singles[q].status = "pending"
  /\ LET single == singles[q]
         result == IF answer.threw THEN "throw"
                   ELSE IF answer.results = <<>> THEN "empty" ELSE "results"
         called == [single EXCEPT
                      !.calls[Len(single.calls)].result = result,
                      !.calls[Len(single.calls)].results = answer.results,
                      !.lastError = @ \/ answer.threw]
     IN IF ~answer.threw /\ returnsResults(answer.results)
        THEN /\ singles' = [singles EXCEPT
                              ![q] = [called EXCEPT !.status = "fulfilled",
                                                    !.value = answer.results]]
             /\ conductorEvents' =
                  Append(conductorEvents, [name |-> "search_success", query |-> q])
        ELSE \E step \in {loopFrom(retrieverCfg, called, single.idx + 1, q)} :
               /\ singles' = [singles EXCEPT ![q] = step.single]
               /\ conductorEvents' =
                    conductorEvents
                      \o (IF answer.threw
                          THEN <<[name |-> "retriever_error", query |-> q]>> ELSE <<>>)
                      \o step.events
  /\ UNCHANGED <<retrieverCfg, srchPc, srchReturn>>
  /\ UNCHANGED memVars
  /\ UNCHANGED srchFrame

\* A join that takes nothing from the settled searches.
fulfilledValueNone(single) == <<>>

\* what the loop after Promise.allSettled takes from one settled search
fulfilledValue(single) == IF single.status = "fulfilled" THEN single.value ELSE <<>>

\* Promise.allSettled resolves: the values of the fulfilled searches are collected
\* and stored, deduplicateResults, 'search_complete', return.
searchInformationReturn ==
  /\ srchPc = "await"
  /\ \A q \in 1..Len(singles) : singles[q].status # "pending"
  /\ \E allResults \in {flatten([q \in 1..Len(singles) |-> fulfilledValue(singles[q])])} :
       /\ visitedUrls' = visitedUrls \cup seqRange(allResults)
       /\ \E unique \in {deduplicateResults(asResults(allResults))} :
            srchReturn' = <<[k \in 1..Len(unique) |-> unique[k].url]>>
  /\ searchQueries' = searchQueries + Cardinality({q \in 1..Len(singles) :
                                                     singles[q].status = "fulfilled"})
  /\ conductorEvents' = Append(conductorEvents, [name |-> "search_complete", query |-> 0])
  /\ srchPc' = "done"
  /\ UNCHANGED <<retrieverCfg, singles>>
  /\ UNCHANGED scrapedContent
  /\ UNCHANGED srchFrame

InitSearch ==
  /\ MemInit /\ AcqInit /\ CurInit /\ CtxInit /\ ObsInit /\ RunIdle
  /\ CallIdle /\ RetryIdle /\ InstIdle /\ UsageIdle /\ WmIdle /\ PrioIdle /\ WsIdle
  /\ cfgQuery = "plain"
  /\ cfgSearchKey = TRUE
  /\ cfgScraper = "cheerio"
  /\ retrieverCfg \in [defaultRetriever : {"tavily", "serper"},
                       keys : SUBSET seqRange(PotentialRetrievers)]
  /\ srchPc = "idle"
  /\ singles = <<>>
  /\ conductorEvents = <<>>
  /\ srchReturn = <<>>

NextSearch ==
  \/ \E n \in 1..MaxQuestions : searchInformation(n)
  \/ \E q \in 1..MaxQuestions, answer \in SearchAnswers : retrieverSettle(q, answer)
  \/ searchInformationReturn

\* One searchInformation call under every configuration of the providers.
SpecSearch == InitSearch /\ [][NextSearch]_vars

\* the place of a provider in the list of getAvailableRetrievers
position(list, name) == CHOOSE p \in 1..Len(list) : list[p] = name

(***************************************************************************)
(* BrowserManager.scrapePriority (src/src/skills/BrowserManager.ts): two    *)
(* scrapeUrls calls, the priority urls first.                               *)
(***************************************************************************)
\* what the actions of scrapePriority leave alone besides the BrowserManager
prioFrame == <<memVars, curVars, ctxVars, runVars, callVars, retryVars, instVars, usageVars,
               wmVars, srchVars, wsVars>>

\* A priority call that keeps the caller's concurrency.
priorityConcurrencyKept(batchSize) == batchSize

\* {...options, maxConcurrency: 1}
priorityConcurrency(batchSize) == 1

\* urls.filter(url => !priorityUrls.includes(url))
remainingUrls(urls, priority) == seqFilter(urls, seqRange(urls) \ seqRange(priority))

\* The second half of scrapePriority: the remaining urls go to scrapeUrls, or
\* scrapePriority returns when there is none.
scrapeRemaining(urls, priority, batchSize) ==
  IF remainingUrls(urls, priority) # <<>>
  THEN /\ scrapeUrlsHead("priority", remainingUrls(urls, priority), batchSize, "cheerio")
       /\ prioPc' = "remaining"
  ELSE /\ acqReset
       /\ prioPc' = "done"
       /\ UNCHANGED <<activeScrapers, acqCalls>>
       /\ UNCHANGED obsVars

\* scrapePriority(urls, priorityUrls, options) up to its first await.
scrapePriority(urls, priority, batchSize) ==
  /\ prioPc = "idle"
  /\ acqPc = "idle"
  /\ prioUrls' = urls
  /\ priorityUrls' = priority
  /\ prioBatchSize' = batchSize
  /\ prioResults' = <<>>
  /\ prioCalled' = <<>>
  /\ IF priority # <<>>
     THEN /\ scrapeUrlsBegin("priority", priority, priorityConcurrency(batchSize), "cheerio")
          /\ prioPc' = "priority"
     ELSE scrapeRemaining(urls, priority, batchSize)
  /\ UNCHANGED prioFrame

\* The scrapeUrls call of the priority urls returns: results.push(...), then the
\* remaining urls.
priorityReturn ==
  /\ prioPc = "priority"
  /\ acqPc = "return"
  /\ prioResults' = acqResults
  /\ prioCalled' = acqCalled
  /\ scrapeRemaining(prioUrls, priorityUrls, prioBatchSize)
  /\ UNCHANGED <<prioUrls, priorityUrls, prioBatchSize>>
  /\ UNCHANGED prioFrame

\* The scrapeUrls call of the remaining urls returns: results.push(...), return.
remainingReturn ==
  /\ prioPc = "remaining"
  /\ acqPc = "return"
  /\ prioResults' = prioResults \o acqResults
  /\ acqReset
  /\ prioPc' = "done"
  /\ UNCHANGED <<activeScrapers, acqCalls>>
  /\ UNCHANGED obsVars
  /\ UNCHANGED <<prioUrls, priorityUrls, prioBatchSize, prioCalled>>
  /\ UNCHANGED prioFrame

\* the priority urls a caller designates
PriorityLists == SeqsUpTo({u \in Urls : u.suffix = ""}, MaxUrls)

NextPriority ==
  \/ /\ prioPc = "idle"
     /\ \E urls \in SeqsUpTo(Urls, MaxUrls), priority \in PriorityLists,
           batchSize \in {1, DefaultBatchSize} : scrapePriority(urls, priority, batchSize)
  \/ scrapeBatchStart
  \/ \E i \in 1..MaxUrls, out \in Contents \cup {"error"} : scrapeSettle(i, out)
  \/ scrapeBatchJoin
  \/ scrapeUrlsEnd
  \/ priorityReturn
  \/ remainingReturn

\* One scrapePriority call of a BrowserManager.
SpecPriority == InitApi /\ [][NextPriority]_vars

(***************************************************************************)
(* WebSocketConnection (src/src/mcp/MCPClient.ts): connect(), the events    *)
(* of its socket, reconnect() with its timer, and close().  The socket of   *)
(* the ws package emits 'open' or, when the handshake fails or is aborted,  *)
(* 'error' followed by 'close'; an open socket emits 'close' when either    *)
(* side closes it.                                                          *)
(***************************************************************************)
\* what the actions of the connection leave alone
wsFrame == <<coreVars, callVars, retryVars, instVars, usageVars, wmVars, srchVars, prioVars>>

\* connect(): CONNECTING, a new WebSocket with its four handlers
connect ==
  /\ state' = "connecting"
  /\ ws' = "connecting"
  /\ sockets' = sockets + 1

\* the owner of the connection calls connect() on the new connection
connectCall ==
  /\ ws = "none"
  /\ closedAt = <<>>
  /\ sockets < MaxSockets
  /\ connect
  /\ UNCHANGED <<autoReconnect, maxReconnectAttempts, reconnectAttempts, timer, closedAt>>
  /\ UNCHANGED wsFrame

\* ws.on('open')
wsOpen ==
  /\ ws = "connecting"
  /\ ws' = "open"
  /\ state' = "connected"
  /\ reconnectAttempts' = 0
  /\ UNCHANGED <<autoReconnect, maxReconnectAttempts, timer, sockets, closedAt>>
  /\ UNCHANGED wsFrame

\* ws.on('error'): the handshake failed, or close() aborted it
wsError ==
  /\ ws \in {"connecting", "aborting"}
  /\ ws' = "failed"
  /\ state' = "error"
  /\ UNCHANGED <<autoReconnect, maxReconnectAttempts, reconnectAttempts, timer, sockets,
                 closedAt>>
  /\ UNCHANGED wsFrame

\* reconnect(): one more attempt, RECONNECTING, setTimeout(connect, backoff)
reconnect ==
  /\ reconnectAttempts' = reconnectAttempts + 1
  /\ state' = "reconnecting"
  /\ timer' = TRUE

\* ws.on('close'): after an error, after ws.close(), or when the server goes away
wsClose ==
  /\ ws \in {"failed", "closing", "open"}
  /\ ws' = "closed"
  /\ IF autoReconnect /\ reconnectAttempts < maxReconnectAttempts
     THEN reconnect
     ELSE /\ state' = "disconnected"
          /\ UNCHANGED <<reconnectAttempts, timer>>
  /\ UNCHANGED <<autoReconnect, maxReconnectAttempts, sockets, closedAt>>
  /\ UNCHANGED wsFrame

\* the timer of reconnect() fires: await this.connect()
reconnectTimerFires ==
  /\ timer
  /\ sockets < MaxSockets
  /\ timer' = FALSE
  /\ connect
  /\ UNCHANGED <<autoReconnect, maxReconnectAttempts, reconnectAttempts, closedAt>>
  /\ UNCHANGED wsFrame

\* close(): autoReconnect = false, this.ws?.close(), DISCONNECTED; the timer of a
\* reconnect() is left as it is
close ==
  /\ closedAt = <<>>
  /\ closedAt' = <<sockets>>
  /\ autoReconnect' = FALSE
  /\ ws' = CASE ws = "connecting" -> "aborting"
            [] ws = "open" -> "closing"
            [] OTHER -> ws
  /\ state' = "disconnected"
  /\ UNCHANGED <<maxReconnectAttempts, reconnectAttempts, timer, sockets>>
  /\ UNCHANGED wsFrame

\* new WebSocketConnection(server, url, token, autoReconnect, maxReconnectAttempts)
InitWs ==
  /\ MemInit /\ AcqInit /\ CurInit /\ CtxInit /\ ObsInit /\ RunIdle
  /\ CallIdle /\ RetryIdle /\ InstIdle /\ UsageIdle /\ WmIdle /\ SrchIdle /\ PrioIdle
  /\ cfgQuery = "plain"
  /\ cfgSearchKey = TRUE
  /\ cfgScraper = "cheerio"
  /\ state = "disconnected"
  /\ ws = "none"
  /\ autoReconnect \in BOOLEAN
  /\ maxReconnectAttempts \in 0..MaxReconnects
  /\ reconnectAttempts = 0
  /\ timer = FALSE
  /\ sockets = 0
  /\ closedAt = <<>>

NextWs ==
  \/ connectCall
  \/ wsOpen
  \/ wsError
  \/ wsClose
  \/ reconnectTimerFires
  \/ close

\* One WebSocketConnection from its construction on.
SpecWs == InitWs /\ [][NextWs]_vars

(***************************************************************************)
(* Properties.                                                             *)
(***************************************************************************)

\* C1: for every list of sources and every token budget, the estimated tokens of
\* the chunks selected so far sum to at most the budget, after every step of the
\* selection loop and for the selection that is compressed and returned.
C1_SelectedWithinBudget ==
  ctxPc # "idle" => SumTokens(selected) <= maxContextTokens

\* a selection that fills the budget exactly and had to pass over a chunk
C1_Witness ==
  /\ ctxPc = "done"
  /\ Len(selected) = 2
  /\ ctxSkipped = 1
  /\ SumTokens(selected) = maxContextTokens

\* C2: a search result whose validation has isValid = FALSE is excluded from every
\* later stage of the run: it is not handed to scraping, it is no source of the
\* context, and it is not among the sources of the result.
C2_InvalidExcluded ==
  \A v \in seqRange(validations) :
    ~v.isValid =>
      /\ v.url \notin seqRange(scrapeInput)
      /\ (acqCaller = "run" => v.url \notin seqRange(acqUrls))
      /\ \A i \in 1..Len(ctxSources) : ctxSources[i].url # v.url
      /\ \A i \in 1..Len(contextData) : contextData[i].url # v.url
      /\ v.url \notin seqRange(resultSources)

\* a finished run that had an invalid result and still has sources and context
C2_Witness ==
  /\ runPc = "done"
  /\ outcome = "resolved"
  /\ \E v \in seqRange(validations) : ~v.isValid
  /\ resultSources # <<>>
  /\ contextData # <<>>

\* C3: the scraping of a run leaves a requested URL without a scraper call only when
\* the cache held content for that URL when the call started.
C3_SkipOnlyWhenCached ==
  (acqPc = "return" /\ acqCaller = "run") =>
    \A i \in 1..Len(acqUrls) :
      (\A c \in seqRange(acqCalled) : normalizeUrl(c) # normalizeUrl(acqUrls[i]))
        => \E k \in DOMAIN cacheAtStart :
             /\ normalizeUrl(k) = normalizeUrl(acqUrls[i])
             /\ cacheAtStart[k] # ""

\* C4: a scrapeUrls call returns one item per distinct input URL (the URLs scraped
\* plus the URLs answered from the cache), and a URL answered from the cache is not
\* handed to a scraper.
C4_OutputCount ==
  acqPc = "return" =>
    /\ Len(acqResults) = Cardinality({normalizeUrl(u) : u \in seqRange(acqUrls)})
    /\ seqRange(acqHits) \cap seqRange(acqCalled) = {}

\* C5: the updates of a streaming run hold at most one terminal update (complete or
\* error), nothing follows it, and a finished run has exactly one.
C5_OneTerminalUpdate ==
  mode = "stream" =>
    LET terminal == {i \in 1..Len(updates) : updates[i] \in {"complete", "error"}}
    IN /\ Cardinality(terminal) <= 1
       /\ \A i \in terminal : i = Len(updates)
       /\ runPc = "done" => Cardinality(terminal) = 1

\* a streaming run that failed after it had yielded other updates
C5_Witness ==
  /\ mode = "stream"
  /\ runPc = "done"
  /\ Len(updates) > 1
  /\ updates[Len(updates)] = "error"

\* C6: a streaming run that yields an error update does not also reject: the
\* consumer's next() is not answered with the thrown error.
C6_ErrorUpdateNotRaised ==
  (mode = "stream" /\ runPc = "done" /\ "error" \in seqRange(updates))
    => outcome # "rejected"

\* C7: every run that is started reaches the end of its finally block, by then
\* cleanup has run once and no scraper is registered any more, whether the run
\* succeeded or failed.
C7_CleanupOnAllPaths ==
  /\ [](runPc = "done" => cleanups = 1 /\ activeScrapers = {})
  /\ (mode # "none") ~> (runPc = "done")

\* a run that failed after pages had been scraped, and was cleaned up
C7_Witness ==
  /\ runPc = "done"
  /\ outcome = "rejected"
  /\ cleanups = 1
  /\ \E i \in 1..Len(scrapedResults) : scrapedResults[i].scraped

\* C8: the stages begin and finish in the order planning, search, curation,
\* scraping, context, report: each stage begins after the one before it has
\* finished, none begins twice, and none begins while another is open.
C8_StagesInOrder ==
  /\ Len(stageLog) <= 2 * Len(StageOrder)
  /\ \A k \in 1..Len(stageLog) :
       stageLog[k] = IF k % 2 = 1 THEN begun(StageOrder[(k + 1) \div 2])
                     ELSE ended(StageOrder[k \div 2])

\* a run that went through all six stages
C8_Witness ==
  /\ runPc = "done"
  /\ Len(stageLog) = 2 * Len(StageOrder)

\* C9: with a configuration error (no search provider key, or no query) a run of
\* either entry point enters no stage, calls no provider and emits no stage event.
C9_ConfigErrorBeforeStages ==
  (mode # "none" /\ (~validateRequired(hasLLMKey, cfgSearchKey) \/ cfgQuery = ""))
    => /\ stageLog = <<>>
       /\ llmCalls = 0
       /\ searchCalls = 0
       /\ seqRange(events) \subseteq {"research_error"}

\* C10 (as amended): a run whose planning gave no question, or whose curation kept
\* no source, goes on through the remaining stages with empty inputs; it is
\* rejected only when the report call fails.
C10_ZeroInputsContinue ==
  (/\ runPc = "done"
   /\ ended("curation") \in seqRange(stageLog)
   /\ (questions = <<>> \/ curated = <<>>))
    => /\ begun("report") \in seqRange(stageLog)
       /\ outcome = "rejected" => ended("report") \notin seqRange(stageLog)

\* a batch run without any question that resolved with a report
C10_Witness ==
  /\ mode = "batch"
  /\ runPc = "done"
  /\ questions = <<>>
  /\ ended("report") \in seqRange(stageLog)
  /\ outcome = "resolved"

\* C10 (as stated): a run with no question after planning, or no source after
\* curation, enters no later stage.
C10_ZeroInputsFailFast ==
  /\ (ended("planning") \in seqRange(stageLog) /\ questions = <<>>)
       => begun("search") \notin seqRange(stageLog)
  /\ (ended("curation") \in seqRange(stageLog) /\ curated = <<>>)
       => begun("scraping") \notin seqRange(stageLog)

\* C11: a conductResearch run in which every search returned no result goes on to
\* the report; when the report call succeeds the run resolves with a report that
\* is not empty and with an empty list of sources.
C11_ZeroResultsReport ==
  (/\ mode = "batch"
   /\ runPc = "done"
   /\ ended("search") \in seqRange(stageLog)
   /\ \A i \in 1..Len(searchSlots) : searchSlots[i].results = <<>>)
    => /\ resultSources = <<>>
       /\ begun("report") \in seqRange(stageLog)
       /\ ended("report") \in seqRange(stageLog) => outcome = "resolved" /\ report # <<>>

\* a resolved run whose provider was asked for every question and found nothing
C11_Witness ==
  /\ mode = "batch"
  /\ runPc = "done"
  /\ cfgSearchKey
  /\ searchCalls = MaxQuestions
  /\ ended("search") \in seqRange(stageLog)
  /\ \A i \in 1..Len(searchSlots) : searchSlots[i].results = <<>>
  /\ outcome = "resolved"
  /\ resultSources = <<>>
  /\ report # <<>>

\* C12: when the planning call fails (planning ended without 'planning_complete')
\* the only question is the query itself, nothing is thrown by planning, and the
\* run goes on to search with that one question.
C12_PlanningFallback ==
  (ended("planning") \in seqRange(stageLog) /\ "planning_complete" \notin seqRange(events))
    => /\ questions = <<0>>
       /\ thrown => begun("search") \in seqRange(stageLog)
       /\ runPc = "done" => Len(searchSlots) = 1 /\ ended("search") \in seqRange(stageLog)

\* a run that resolved after its planning call had failed
C12_Witness ==
  /\ runPc = "done"
  /\ "planning_start" \in seqRange(events)
  /\ "planning_complete" \notin seqRange(events)
  /\ questions = <<0>>
  /\ searchCalls = 1
  /\ outcome = "resolved"

\* C13: the output of deduplicateResults holds, for every url of the input, one
\* entry, which is the first result of the input with that url, and nothing
\* else; the entries that have a score are in descending order of score.
C13_DedupFirstThenSorted ==
  callRet # <<>> =>
    LET out == callRet[1]
    IN /\ \A k \in 1..Len(out) :
            /\ out[k] = callArg[out[k].id]
            /\ \A j \in 1..(out[k].id - 1) : callArg[j].url # out[k].url
       /\ \A i \in 1..Len(callArg) :
            Cardinality({k \in 1..Len(out) : out[k].url = callArg[i].url}) = 1
       /\ \A k, l \in 1..Len(out) :
            (k < l /\ out[k].score # {} /\ out[l].score # {})
              => scoreOrZero(out[k].score) >= scoreOrZero(out[l].score)

\* a list with a repeated url whose unique results were put in another order
C13_Witness ==
  /\ callRet # <<>>
  /\ Len(callRet[1]) < Len(callArg)
  /\ \E k, l \in 1..Len(callRet[1]) : k < l /\ callRet[1][k].id > callRet[1][l].id

\* C14: once the search stage has ended, no two of the merged search results have
\* the same url after normalization.
C14_MergedUniqueNormalized ==
  ended("search") \in seqRange(stageLog)
    => \A i, j \in 1..Len(searchResults) :
         i # j => normalizeUrl(searchResults[i]) # normalizeUrl(searchResults[j])

\* C15: whatever the source and the criteria, the credibilityScore of the
\* validation validateSource returns is between 0 and 100; it is 0 for a url that
\* does not parse.
C15_ScoreInRange ==
  callRet # <<>> =>
    /\ callRet[1].credibilityScore \in 0..100
    /\ callArg.source.malformed => callRet[1].credibilityScore = 0

\* a trusted .gov source with every content bonus, validated under the empty
\* criteria: 50 + 55 + 30 is cut to 100
C15_Witness ==
  /\ callRet # <<>>
  /\ ~callArg.source.malformed
  /\ \A f \in {"requireHttps", "maxAge", "requireDate"} : ~callArg.criteria[f]
  /\ rawScore(callArg.source, callArg.criteria,
              checkDomain(callArg.source.domain, <<>>).score) > 100
  /\ callRet[1].credibilityScore = 100

\* C16: an invocation that fails with an authentication error (401) is the last
\* one: the loop has ended with that error and no delay was waited after it.
C16_AuthNeverRetried ==
  \A k \in 1..Len(attempts) :
    attempts[k].status = 401
      => /\ Len(attempts) = k
         /\ Len(sleeps) = k - 1
         /\ retryPc = "done"
         /\ retryResult = "error"

\* C17: every network call is invoked at most 1 + 3 times; the k-th delay is
\* 1s doubled k - 1 times; a call is given up after a timeout only when the
\* three retries are used up, and a call that succeeds has waited once before
\* every invocation but the first (two timeouts and a success: 3 invocations,
\* delays 1s and 2s).
C17_BackoffSchedule ==
  /\ Len(attempts) <= MaxRetries + 1
  /\ \A k \in 1..Len(sleeps) : sleeps[k] = FirstDelay * 2 ^ (k - 1)
  /\ retryPc = "done" => Len(sleeps) = Len(attempts) - 1
  /\ (retryPc = "done" /\ retryResult = "error" /\ attempts[Len(attempts)].status = 0)
       => Len(attempts) = MaxRetries + 1

\* C18: every stage of a run uses the query and the report type its instance was
\* constructed with (the default report type when none was given).
C18_QueryOfOwnInstance ==
  \A r \in 1..MaxRuns :
    runState[r].pc # "idle" =>
      LET own == CHOOSE config \in ctorConfig[runState[r].inst] : TRUE
      IN /\ runState[r].query = own.query
         /\ runState[r].pc = "done" =>
              /\ runState[r].ctxQuery = own.query
              /\ runState[r].reportType =
                   IF own.reportType = "undefined" THEN DefaultReportType
                   ELSE own.reportType

\* C19: every run starts on an empty memory: nothing visited, nothing cached, no
\* stored search result, no context.
C19_MemoryEmptyAtRunStart ==
  \A r \in 1..MaxRuns : runState[r].pc # "idle" => runState[r].memAtStart = EmptyMemory

\* C20: in the events of a run, the start event of a stage is followed by the
\* complete event of that stage before the start event of any other stage; a run
\* that was rejected has emitted 'research_error'; and a run that has ended has
\* emitted exactly one of 'research_complete' and 'research_error'.
C20_StageEventsPaired ==
  LET stageEvents ==
        {<<"planning_start", "planning_complete">>, <<"search_start", "search_complete">>,
         <<"curation_start", "curation_complete">>, <<"scraping_start", "scraping_complete">>,
         <<"context_building_start", "context_building_complete">>,
         <<"report_generation_start", "report_generation_complete">>}
      terminal == {k \in 1..Len(events) : events[k] \in {"research_complete", "research_error"}}
  IN /\ \A pair \in stageEvents, other \in stageEvents, k, l \in 1..Len(events) :
          (events[k] = pair[1] /\ events[l] = other[1] /\ k < l)
            => \E c \in (k + 1)..(l - 1) : events[c] = pair[2]
     /\ (runPc = "done" /\ outcome = "rejected") => "research_error" \in seqRange(events)
     /\ runPc = "done" => Cardinality(terminal) = 1

\* C21: the running token and cost totals of the orchestrator equal the usage
\* of all the LLM invocations made so far, planning, compression, batch synthesis
\* and streamed synthesis alike.
C21_TotalsEqualUsage ==
  /\ tokensUsed = usedBy(invocations).tokens
  /\ totalCost = usedBy(invocations).cost

\* C22: the report of a streaming run is the post-processed form of the text that
\* was generated (title, metadata, references), as generateReport would have made
\* it from the same text and sources, before or after addReferences.
C22_StreamPostProcessed ==
  (mode = "stream" /\ ended("report") \in seqRange(stageLog))
    => \E processed \in {postProcessReport(fullReport(reportChunks), curated)} :
         report \in {processed, addReferences(processed, curated)}

\* C23: when buildContext is given one chunk of 10,000 estimated tokens under a
\* budget of 1,000, the chunk is handed to compression and the context returned
\* holds that chunk, compressed, or in its original form only when the
\* compression threw.
C23_OversizeChunkCompressed ==
  (/\ ctxPc = "done"
   /\ Len(chunks) = 1
   /\ chunks[1].tokens = OversizeTokens * TokenUnit
   /\ maxContextTokens = MaxBudget * TokenUnit)
    => /\ Len(compressed) = 1
       /\ compressed[1].source = chunks[1].source

\* C24: a source at https://example.gov/article with no other signal (no author,
\* no date, a short snippet and title), validated without criteria, gets the
\* credibilityScore 75 and is valid.
C24_GovSourceScores75 ==
  (/\ callRet # <<>>
   /\ ~callArg.source.malformed
   /\ callArg.source = [sourceOf([page |-> 1, suffix |-> ""])
                          EXCEPT !.domain = domainOfHost(<<"example", "gov">>)]
   /\ \A f \in {"requireHttps", "maxAge", "requireDate"} : ~callArg.criteria[f]
   /\ callArg.criteria.allowedDomains = "none"
   /\ callArg.criteria.blockedDomains = "none"
   /\ callArg.criteria.minContentLength = 0
   /\ callArg.criteria.minCredibilityScore = 0)
    => /\ callRet[1].credibilityScore = BaseScore + GovBonus
       /\ callRet[1].isValid

\* C25: when the export of a Memory instance has been imported into a fresh
\* instance, getStats() of the fresh instance equals getStats() of the original.
C25_RoundTripStats ==
  (newMemory # <<>> /\ mutated = <<>>) => getStats(newMemory[1]) = getStats(memory)

\* a round trip of an instance that holds entries of two types, search results
\* and visited urls
C25_Witness ==
  /\ newMemory # <<>>
  /\ mutated = <<>>
  /\ Len(memory.entriesByType.keys) = 2
  /\ memory.searchResults # <<>>
  /\ memory.visitedUrls # <<>>
  /\ memory.nextId > 2
  /\ getStats(newMemory[1]) = getStats(memory)

\* C26: getSearchResults(q) returns the results that were added under the query
\* q, in the order they were added.
C26_ResultsOfQuery ==
  \A query \in MemQueries : getSearchResults(memory, query) = addedUnder(added, query)

\* C27: for each sub-question the providers are called one at a time in the order
\* of the list (the default provider first, then the others that have an API
\* key): only the last call can be in flight, every call before another one threw
\* or returned nothing, and every provider with credentials that comes earlier in
\* the list has been called before.
C27_ProvidersInTurn ==
  \A q \in 1..Len(singles) :
    LET calls == singles[q].calls
        list == getAvailableRetrievers(retrieverCfg)
    IN \A k \in 1..Len(calls) :
         /\ calls[k].retriever \in retrieverCfg.keys
         /\ k < Len(calls) => calls[k].result \in {"throw", "empty"}
         /\ \A j \in 1..(k - 1) :
              position(list, calls[j].retriever) < position(list, calls[k].retriever)
         /\ \A p \in 1..(position(list, calls[k].retriever) - 1) :
              list[p] \in retrieverCfg.keys => \E j \in 1..(k - 1) : calls[j].retriever = list[p]

\* a sub-question whose first provider threw, whose second returned nothing and
\* whose third found results, while another sub-question stopped at the first
C27_Witness ==
  /\ srchPc = "done"
  /\ Len(singles) = 2
  /\ Len(singles[1].calls) = 3
  /\ singles[1].calls[1].result = "throw"
  /\ singles[1].calls[2].result = "empty"
  /\ singles[1].calls[3].result = "results"
  /\ Len(singles[2].calls) = 1
  /\ singles[2].calls[1].result = "results"

\* C28: searchInformation returns: a sub-question all of whose providers threw
\* contributes nothing and has a 'search_error' event, and what is returned is
\* the deduplicated results of the sub-questions whose last provider found some.
C28_BatchNeverRejects ==
  srchPc = "done" =>
    /\ srchReturn # <<>>
    /\ \A q \in 1..Len(singles) :
         (singles[q].calls # <<>>
          /\ \A k \in 1..Len(singles[q].calls) : singles[q].calls[k].result = "throw")
           => /\ singles[q].value = <<>>
              /\ [name |-> "search_error", query |-> q] \in seqRange(conductorEvents)
    /\ \E found \in {flatten([q \in 1..Len(singles) |->
                        LET calls == singles[q].calls
                        IN IF calls # <<>> /\ calls[Len(calls)].result = "results"
                           THEN calls[Len(calls)].results ELSE <<>>])} :
         \E unique \in {deduplicateResults(asResults(found))} :
           srchReturn[1] = [k \in 1..Len(unique) |-> unique[k].url]

\* a batch of two: every provider of the first sub-question threw, the second
\* sub-question found results, and they are what is returned
C28_Witness ==
  /\ srchPc = "done"
  /\ Len(singles) = 2
  /\ Len(singles[1].calls) = 2
  /\ \A k \in 1..2 : singles[1].calls[k].result = "throw"
  /\ singles[2].calls # <<>>
  /\ singles[2].value # <<>>
  /\ srchReturn = <<singles[2].value>>

\* C29: during a scrapeUrls call the batches are processed one after the other:
\* the acquisitions in flight are urls of the current batch, at most batch-size
\* many; no url of a later batch has been handed to a scraper; every url of an
\* earlier batch has its result; and the call moves to the next batch only when
\* every acquisition of the current one has settled.
C29_BatchesInSequence ==
  /\ [](acqPc # "idle" =>
          /\ \A b \in 1..Len(batches) : Len(batches[b]) <= DefaultBatchSize
          /\ acqSlots # <<>> =>
               /\ acqBatch <= Len(batches)
               /\ [i \in 1..Len(acqSlots) |-> acqSlots[i].url] = batches[acqBatch]
          /\ \A b \in 1..Len(batches) :
               /\ (b > acqBatch \/ (b = acqBatch /\ acqPc = "batch"))
                    => seqRange(batches[b]) \cap seqRange(acqCalled \o acqHits) = {}
               /\ b < acqBatch
                    => \A u \in seqRange(batches[b]) :
                         \E k \in 1..Len(acqResults) : acqResults[k].url = u)
  /\ [][acqBatch' = acqBatch + 1 =>
          \A i \in 1..Len(acqSlots) : acqSlots[i].status = "done"]_vars

\* the second batch of a call with batch size 1 is in flight after the first
\* batch has settled
C29_Witness ==
  /\ acqPc = "await"
  /\ Len(batches) = 2
  /\ acqBatch = 2
  /\ Len(acqResults) = 1
  /\ Len(acqSlots) = 1
  /\ acqSlots[1].status = "pending"
  /\ acqCalled = batches[1] \o batches[2]

\* C30: in scrapePriority the priority urls are acquired one at a time, and while
\* the remaining urls are acquired no priority url is in flight: every priority
\* url that was handed to a scraper has its result, and the second scrapeUrls
\* call began only when the first had returned.
C30_PriorityFirst ==
  /\ [](/\ prioPc = "priority" =>
             /\ Len(acqSlots) <= 1
             /\ seqRange(acqCalled) \subseteq seqRange(priorityUrls)
        /\ prioPc = "remaining" =>
             /\ seqRange(acqCalled) \cap seqRange(priorityUrls) = {}
             /\ \A i \in 1..Len(acqSlots) : acqSlots[i].url \notin seqRange(priorityUrls)
             /\ \A u \in seqRange(prioCalled) :
                  \E k \in 1..Len(prioResults) : prioResults[k].url = u)
  /\ [][(prioPc = "priority" /\ prioPc' # "priority") =>
          /\ acqPc = "return"
          /\ acqSlots = <<>>
          /\ Len(acqResults) = Len(acqCalled \o acqHits)]_vars

\* two priority urls were acquired, and two remaining urls are in flight together
C30_Witness ==
  /\ prioPc = "remaining"
  /\ Len(prioCalled) = 2
  /\ Len(prioResults) = 2
  /\ Len(acqSlots) = 2
  /\ \A i \in 1..2 : acqSlots[i].status = "pending"

\* C31: in a batch of scrapeBatch the results are in the order of its urls, one per
\* url, whatever the order in which the scrapes settle; a scrape that fails gives at
\* its index a result with an error and empty content, the call does not throw, and
\* a settling scrape changes no promise of the batch but its own.
C31_BatchInInputOrder ==
  /\ [](acqPc = "await" =>
          /\ Len(acqSlots) = Len(batches[acqBatch])
          /\ \A i \in 1..Len(acqSlots) :
                /\ acqSlots[i].url = batches[acqBatch][i]
                /\ acqSlots[i].error => acqSlots[i].content = "")
  /\ [][acqBatch' = acqBatch + 1 =>
          /\ Len(acqResults') = Len(acqResults) + Len(batches[acqBatch])
          /\ \A i \in 1..Len(batches[acqBatch]) :
                LET r == acqResults'[Len(acqResults) + i]
                IN /\ r.url = batches[acqBatch][i]
                   /\ r.content = acqSlots[i].content
                   /\ r.error = acqSlots[i].error
                   /\ r.error => r.content = ""
          /\ SubSeq(acqResults', 1, Len(acqResults)) = acqResults]_vars
  /\ [][acqPc = "await" /\ acqPc' = "await" =>
          /\ Len(acqSlots') = Len(acqSlots)
          /\ Cardinality({i \in 1..Len(acqSlots) : acqSlots'[i] # acqSlots[i]}) <= 1]_vars

\* a batch of two has been joined: the first scrape failed, the second gave text
C31_Witness ==
  /\ acqPc = "batch"
  /\ acqBatch = 2
  /\ Len(batches[1]) = 2
  /\ Len(acqResults) = 2
  /\ acqResults[1].error /\ acqResults[1].content = ""
  /\ ~acqResults[2].error /\ acqResults[2].content = "text"

\* C32: a successful scrape is stored in the cache under the normalized form of its
\* URL, and a scraper call succeeds only for a URL whose normalized form had no
\* cached content under any key when the scrapeUrls call started.
C32_CachedUnderNormalizedUrl ==
  /\ \A k \in DOMAIN scrapedContent : k = normalizeUrl(k)
  /\ \A i \in 1..Len(acqSlots) :
        (acqSlots[i].status = "done" /\ ~acqSlots[i].cached /\ ~acqSlots[i].error)
          => \A k \in DOMAIN cacheAtStart :
               normalizeUrl(k) = normalizeUrl(acqSlots[i].url) => cacheAtStart[k] = ""

\* C33: every source handed to buildContext in a run is the content of a URL that
\* scrapeUrls acquired without error (from a scraper or from the cache).
C33_ContextFromAcquired ==
  \A i \in 1..Len(ctxSources) :
    \E j \in 1..Len(scrapedResults) :
      /\ scrapedResults[j].url = ctxSources[i].url
      /\ scrapedResults[j].content = ctxSources[i].content
      /\ scrapedResults[j].scraped

\* C34: the validation of a source does not depend on what the same SourceCurator
\* validated before: it is the validation a fresh SourceCurator gives the source.
C34_ValidationIndependent ==
  callRet # <<>> =>
    LET fresh == validateSource(callArg.source, callArg.criteria, <<>>)
    IN /\ callRet[1].isValid = fresh.isValid
       /\ callRet[1].credibilityScore = fresh.credibilityScore

\* C35: calculateRelevance throws for no text and no query: a run that has begun
\* building its context from some sources is never thrown out of createContextChunks,
\* whatever characters the terms of its query hold.
C35_RelevanceNeverThrows ==
  ~ /\ begun("context") \in seqRange(stageLog)
    /\ ended("context") \notin seqRange(stageLog)
    /\ ctxSources # <<>>
    /\ ctxPc = "idle"
    /\ thrown

\* C36: a references section is appended to the report only when the generated text
\* has no references or sources heading, and the report holds at most one appended
\* references section.
C36_ReferencesOnlyWithoutHeading ==
  /\ "## sources" \in seqRange(report) => "## references" \notin seqRange(report)
  /\ Cardinality({i \in 1..Len(report) : report[i] = "## references"}) <= 1

RECURSIVE takeFitting(_, _, _)
takeFitting(rest, total, max) ==
  IF rest = <<>> THEN <<>>
  ELSE IF total + Head(rest).tokens <= max
       THEN <<Head(rest)>> \o takeFitting(Tail(rest), total + Head(rest).tokens, max)
       ELSE takeFitting(Tail(rest), total, max)

\* C38: in buildContext the replacement branch of selectChunks changes nothing: a
\* step of the loop appends the chunk or leaves the selection as it is, the
\* selection is the one a single scan taking every fitting chunk makes, and
\* totalTokens is the sum of the tokens of the selected chunks.
C38_ReplacementNeverApplies ==
  /\ [](ctxPc # "idle" =>
          /\ totalTokens = SumTokens(selected)
          /\ selected = takeFitting(SubSeq(chunks, 1, IF ctxPc = "select" THEN ctxIdx - 1
                                                     ELSE Len(chunks)),
                                    0, maxContextTokens))
  /\ [][(ctxPc = "select" /\ ctxIdx' = ctxIdx + 1) =>
          selected' \in {selected, Append(selected, chunks[ctxIdx])}]_vars

\* a finished selection over three chunks of two relevances that passed over the
\* second chunk and took the third
C38_Witness ==
  /\ ctxPc = "done"
  /\ Len(chunks) = 3
  /\ chunks[1].relevance > chunks[3].relevance
  /\ ctxSkipped = 1
  /\ Len(selected) = 2
  /\ selected[2] = chunks[3]

\* C39: after export and import the two instances and the exported object are
\* independent: an operation on one instance changes neither the other instance
\* (its contents, and so its getStats()) nor the exported object.
C39_IndependentAfterImport ==
  [][Len(mutated') = Len(mutated) + 1 =>
       /\ exported' = exported
       /\ mutated'[Len(mutated')] = "memory" => newMemory' = newMemory
       /\ mutated'[Len(mutated')] = "newMemory" => memory' = memory]_vars

\* C40: once close() has been called on a WebSocketConnection, it is never again
\* CONNECTING or CONNECTED, and connect() makes no further socket, also when a
\* reconnect timer was pending at the call.
C40_ClosedStaysClosed ==
  closedAt # <<>> =>
    /\ state \notin {"connecting", "connected"}
    /\ sockets = closedAt[1]

====
